---- MODULE Spec2Model ----
(***************************************************************************)
(* Engine orchestrator of src-tauri: the job registry, submit, the per-job *)
(* execution loop (process_job), cancel_job, get_progress and list_jobs,   *)
(* together with the engine catalog and the runner's choice between the    *)
(* sidecar and the mock engine.                                            *)
(*                                                                         *)
(* Every block of process_job that runs under one acquisition of the job's *)
(* mutex is one atomic step of the job's task; the points between two      *)
(* blocks are where other tasks and callers interleave.  submit,           *)
(* cancel_job, get_progress and list_jobs are one step each.               *)
(*                                                                         *)
(* A timestamp is either unset or set (chrono::Utc::now() is not           *)
(* modelled as a number), a finding carries its id and the fields that     *)
(* depend on the engine and the request, and a job id is the next unused   *)
(* number.                                                                 *)
(*                                                                         *)
(* Besides the orchestrator (Spec, DirectSpec, PairSpec with two jobs,     *)
(* OptionSpec with request options) the module holds the locks one         *)
(* acquisition at a time (LockSpec), one call of run_via_sidecar one pipe  *)
(* operation at a time (SidecarSpec), an EngineRunner called on its own    *)
(* (RunnerSpec), the two functions of the catalog (CatalogSpec) and an     *)
(* EngineJob called on its own, where the time of a call is a value        *)
(* (JobSpec).                                                              *)
(***************************************************************************)
EXTENDS Integers, Sequences, FiniteSets, TLC

\* ------------------------------------------------------------------ bounds
\* Number of jobs submitted in one behaviour.
MaxJobs == 1
\* Longest list of engine names in one request.
MaxEngines == 2

None == "None"

Range(s) == {s[i] : i \in DOMAIN s}

\* ---------------------------------------------------------- engine catalog
EngineId ==
    {"EntityResolution", "TemporalParser", "Argumentation", "BiasDetection",
     "Contradiction", "AccountabilityAudit", "ProfessionalTracker",
     "Omission", "ExpertWitness", "Documentary", "Narrative", "Coordination",
     "Network", "Memory", "Linguistic", "BiasCascade"}

\* impl Display for EngineId
to_string(e) ==
    CASE e = "EntityResolution" -> "entity_resolution"
      [] e = "TemporalParser" -> "temporal_parser"
      [] e = "Argumentation" -> "argumentation"
      [] e = "BiasDetection" -> "bias_detection"
      [] e = "Contradiction" -> "contradiction"
      [] e = "AccountabilityAudit" -> "accountability_audit"
      [] e = "ProfessionalTracker" -> "professional_tracker"
      [] e = "Omission" -> "omission"
      [] e = "ExpertWitness" -> "expert_witness"
      [] e = "Documentary" -> "documentary"
      [] e = "Narrative" -> "narrative"
      [] e = "Coordination" -> "coordination"
      [] e = "Network" -> "network"
      [] e = "Memory" -> "memory"
      [] e = "Linguistic" -> "linguistic"
      [] e = "BiasCascade" -> "bias_cascade"

\* Mutant of from_str: the arms of two neighbouring names are exchanged.
from_str_arms_exchanged(s) ==
    CASE s = "entity_resolution" -> "EntityResolution"
      [] s = "temporal_parser" -> "TemporalParser"
      [] s = "argumentation" -> "Argumentation"
      [] s = "bias_detection" -> "BiasDetection"
      [] s = "contradiction" -> "Contradiction"
      [] s = "accountability_audit" -> "AccountabilityAudit"
      [] s = "professional_tracker" -> "ProfessionalTracker"
      [] s = "omission" -> "Omission"
      [] s = "expert_witness" -> "ExpertWitness"
      [] s = "documentary" -> "Narrative"
      [] s = "narrative" -> "Documentary"
      [] s = "coordination" -> "Coordination"
      [] s = "network" -> "Network"
      [] s = "memory" -> "Memory"
      [] s = "linguistic" -> "Linguistic"
      [] s = "bias_cascade" -> "BiasCascade"
      [] s = "temporal" -> "TemporalParser"
      [] OTHER -> None

\* EngineId::from_str: Some(id) is the id, None is None
from_str(s) ==
    CASE s = "entity_resolution" -> "EntityResolution"
      [] s = "temporal_parser" -> "TemporalParser"
      [] s = "argumentation" -> "Argumentation"
      [] s = "bias_detection" -> "BiasDetection"
      [] s = "contradiction" -> "Contradiction"
      [] s = "accountability_audit" -> "AccountabilityAudit"
      [] s = "professional_tracker" -> "ProfessionalTracker"
      [] s = "omission" -> "Omission"
      [] s = "expert_witness" -> "ExpertWitness"
      [] s = "documentary" -> "Documentary"
      [] s = "narrative" -> "Narrative"
      [] s = "coordination" -> "Coordination"
      [] s = "network" -> "Network"
      [] s = "memory" -> "Memory"
      [] s = "linguistic" -> "Linguistic"
      [] s = "bias_cascade" -> "BiasCascade"
      [] s = "temporal" -> "TemporalParser"
      [] OTHER -> None

\* EngineId::active_engines
active_engines ==
    <<"EntityResolution", "TemporalParser", "Argumentation", "BiasDetection",
      "Contradiction", "AccountabilityAudit", "ProfessionalTracker",
      "Omission", "ExpertWitness", "Documentary", "Narrative",
      "Coordination">>

\* ------------------------------------------------------------------ inputs
\* Engine names a request may carry: two canonical names, the legacy alias
\* of one of them, and a name the catalog does not know.
ReqNames == {"contradiction", "temporal_parser", "temporal", "bogus_engine"}

EngineNameLists == UNION {[1..n -> ReqNames] : n \in 0..MaxEngines}

\* struct AnalysisRequest
AnalysisRequest ==
    {[case_id |-> "c1", document_ids |-> <<"d1", "d2">>, engines |-> l,
      options |-> None] : l \in EngineNameLists}

\* Job ids: 1..MaxJobs are the ids submit hands out; callers may also pass
\* an id no job ever has.
JobIds == 1..MaxJobs
CallIds == 0..MaxJobs

\* Paths a sidecar may be configured with; only the second one is a file.
SidecarPaths == {"/missing/engine-runner.js", "/sidecars/engine-runner.js"}
path_exists(p) == p = "/sidecars/engine-runner.js"

\* ------------------------------------------------------------------ runner
\* Result<Vec<EngineFinding>, String>
Ok(findings) == [ok |-> TRUE, findings |-> findings, error |-> ""]
Err(e) == [ok |-> FALSE, findings |-> <<>>, error |-> e]

\* Result<EngineResult, String> of runner.rs: the findings and the mock flag
RunOk(findings, used_mock_mode) ==
    [ok |-> TRUE, findings |-> findings, used_mock_mode |-> used_mock_mode,
     error |-> ""]
RunErr(e) ==
    [ok |-> FALSE, findings |-> <<>>, used_mock_mode |-> FALSE, error |-> e]

\* EngineFinding, without its free-text fields; mock is the "mock" flag of
\* its metadata
EngineFinding(id, engine_id, finding_type, document_ids, mock) ==
    [id |-> id, engine_id |-> engine_id, finding_type |-> finding_type,
     document_ids |-> document_ids, mock |-> mock]

\* Option<T>: Some(x) is <<x>>, no value is <<>>
Some(x) == <<x>>
Absent == <<>>

\* A line of the worker's stdout is a sequence of pieces: white space, and
\* texts that hold no white space at their ends.
Whitespace == {" ", "\t", "\n"}

\* str::trim
RECURSIVE trim_start(_)
trim_start(line) ==
    IF line # <<>> /\ Head(line) \in Whitespace
    THEN trim_start(Tail(line)) ELSE line

RECURSIVE trim_end(_)
trim_end(line) ==
    IF line # <<>> /\ line[Len(line)] \in Whitespace
    THEN trim_end(SubSeq(line, 1, Len(line) - 1)) ELSE line

trim(line) == trim_end(trim_start(line))

\* The finding a worker reports
WorkerFinding == EngineFinding("f1", "f", "worker", <<>>, FALSE)

\* serde_json::from_str::<EngineResponse> of the first stdout line: white
\* space around the value is skipped; a line that is no EngineResponse gives
\* Absent (the parse error). The texts stand for responses that carry
\* engine_id and duration_ms besides what they show.
parse_response(line) ==
    LET text == trim(line) IN
    IF Len(text) # 1 THEN Absent
    ELSE CASE text[1] = "{success:true,findings:[f]}" ->
                  Some([success |-> TRUE, findings |-> Some(<<WorkerFinding>>),
                        error |-> Absent])
           [] text[1] = "{success:true}" ->
                  Some([success |-> TRUE, findings |-> Absent,
                        error |-> Absent])
           [] text[1] = "{success:true,error:boom}" ->
                  Some([success |-> TRUE, findings |-> Absent,
                        error |-> Some("boom")])
           [] text[1] = "{success:false,error:boom}" ->
                  Some([success |-> FALSE, findings |-> Absent,
                        error |-> Some("boom")])
           [] text[1] = "{success:false,error:}" ->
                  Some([success |-> FALSE, findings |-> Absent,
                        error |-> Some("")])
           [] text[1] = "{success:false,findings:[f],error:boom}" ->
                  Some([success |-> FALSE, findings |-> Some(<<WorkerFinding>>),
                        error |-> Some("boom")])
           [] text[1] = "{success:false,findings:[f]}" ->
                  Some([success |-> FALSE, findings |-> Some(<<WorkerFinding>>),
                        error |-> Absent])
           [] text[1] = "{success:false}" ->
                  Some([success |-> FALSE, findings |-> Absent,
                        error |-> Absent])
           [] OTHER -> Absent

\* What one invocation meets outside the program: whether `node` can be
\* spawned, whether the child accepts the request, whether it ever
\* terminates, its exit status, the first line of its stdout, and the value
\* Uuid::new_v4 returns.
Worker(spawn_ok, write_ok, hangs, exit_ok, line, uuid) ==
    [spawn_ok |-> spawn_ok, write_ok |-> write_ok, hangs |-> hangs,
     exit_ok |-> exit_ok, line |-> line, uuid |-> uuid]

\* The worker behaviours the job loops are run against: a good worker and
\* one for each kind of failure.
WorkerBehaviours ==
    {Worker(TRUE, TRUE, FALSE, TRUE,
            <<"{success:true,findings:[f]}", "\n">>, "u1"),
     Worker(FALSE, TRUE, FALSE, TRUE, <<>>, "u1"),
     Worker(TRUE, FALSE, FALSE, TRUE, <<>>, "u1"),
     Worker(TRUE, TRUE, TRUE, TRUE, <<>>, "u1"),
     Worker(TRUE, TRUE, FALSE, TRUE, <<"not json", "\n">>, "u1"),
     Worker(TRUE, TRUE, FALSE, FALSE,
            <<"{success:false,error:boom}", "\n">>, "u1")}

\* Mutant of response_is_empty: the line is not trimmed before the test.
response_is_empty_untrimmed(line) == line = <<>>

\* response_line.trim().is_empty() (runner.rs 234)
response_is_empty(line) == trim(line) = <<>>

\* Mutant of response_result: a worker that exits with a non-zero status
\* fails the call.
response_result_checks_status(exit_ok, line) ==
    IF ~exit_ok THEN Err("Sidecar exited with status")
    ELSE IF response_is_empty(line) THEN Err("Empty response from sidecar")
    ELSE LET parsed == parse_response(line) IN
         IF parsed = Absent THEN Err("Failed to parse response")
         ELSE LET response == parsed[1] IN
              IF response.success
              THEN Ok(IF response.findings = Absent THEN <<>>
                      ELSE response.findings[1])
              ELSE Err(IF response.error = Absent
                       THEN "Unknown sidecar error" ELSE response.error[1])

\* Mutant of response_result: a failure the worker reports is returned under
\* one fixed message.
response_result_drops_error(exit_ok, line) ==
    IF response_is_empty(line) THEN Err("Empty response from sidecar")
    ELSE LET parsed == parse_response(line) IN
         IF parsed = Absent THEN Err("Failed to parse response")
         ELSE LET response == parsed[1] IN
              IF response.success
              THEN Ok(IF response.findings = Absent THEN <<>>
                      ELSE response.findings[1])
              ELSE Err("Unknown sidecar error")

\* The value of the timeout's inner block once child.wait() has returned,
\* from the exit status and the line read_line returned (runner.rs 229-248):
\* the status is logged and decides nothing
response_result(exit_ok, line) ==
    IF response_is_empty(line) THEN Err("Empty response from sidecar")
    ELSE LET parsed == parse_response(line) IN
         IF parsed = Absent THEN Err("Failed to parse response")
         ELSE LET response == parsed[1] IN
              IF response.success
              THEN Ok(IF response.findings = Absent THEN <<>>
                      ELSE response.findings[1])
              ELSE Err(IF response.error = Absent
                       THEN "Unknown sidecar error" ELSE response.error[1])

\* EngineRunner::run_via_sidecar against a worker behaving as w
run_via_sidecar(w) ==
    IF ~w.spawn_ok THEN Err("Failed to spawn sidecar")
    ELSE IF w.hangs THEN Err("Sidecar timed out after 180s")
    ELSE IF ~w.write_ok THEN Err("Failed to write to sidecar stdin")
    ELSE response_result(w.exit_ok, w.line)

\* EngineRunner::run_mock_engine: one placeholder finding per engine
mock_finding_type(e) ==
    CASE e = "Contradiction" -> "factual_contradiction"
      [] e = "Omission" -> "material_omission"
      [] e = "ExpertWitness" -> "scope_exceeded"
      [] e = "Narrative" -> "amplification"
      [] e = "Coordination" -> "shared_language"
      [] e = "EntityResolution" -> "extraction"
      [] e = "TemporalParser" -> "timeline_gap"
      [] OTHER -> "general"

\* Mutant of run_mock_engine: the match has no catch-all arm with a finding.
run_mock_engine_bespoke_only(uuid, e, case_id, document_ids) ==
    IF mock_finding_type(e) = "general" THEN Ok(<<>>)
    ELSE Ok(<<EngineFinding(uuid, to_string(e), mock_finding_type(e),
                            document_ids, TRUE)>>)

run_mock_engine(uuid, e, case_id, document_ids) ==
    Ok(<<EngineFinding(uuid, to_string(e), mock_finding_type(e),
                       document_ids, TRUE)>>)

\* EngineRunner::new / with_sidecar_path / with_mock_mode
EngineRunner_new == [sidecar_path |-> None, mock_mode |-> FALSE]
runner_with_sidecar_path(r, path) == [r EXCEPT !.sidecar_path = path]
runner_with_mock_mode(r, mock) == [r EXCEPT !.mock_mode = mock]

\* EngineRunner::is_mock_mode
is_mock_mode(r) ==
    IF r.mock_mode THEN TRUE
    ELSE IF r.sidecar_path # None THEN ~path_exists(r.sidecar_path)
    ELSE TRUE

\* Mutant of run_engine: a configured path is used without looking whether
\* it exists.
run_engine_path_unchecked(r, w, e, case_id, document_ids) ==
    IF r.mock_mode
    THEN RunOk(run_mock_engine(w.uuid, e, case_id, document_ids).findings, TRUE)
    ELSE IF r.sidecar_path # None
    THEN LET res == run_via_sidecar(w) IN
         IF res.ok THEN RunOk(res.findings, FALSE) ELSE RunErr(res.error)
    ELSE RunOk(run_mock_engine(w.uuid, e, case_id, document_ids).findings, TRUE)

\* Mutant of run_engine: the fallback taken for want of a usable worker path
\* does not flag its result as mock data.
run_engine_unflagged_fallback(r, w, e, case_id, document_ids) ==
    IF r.mock_mode
    THEN RunOk(run_mock_engine(w.uuid, e, case_id, document_ids).findings, TRUE)
    ELSE IF r.sidecar_path # None /\ path_exists(r.sidecar_path)
    THEN LET res == run_via_sidecar(w) IN
         IF res.ok THEN RunOk(res.findings, FALSE) ELSE RunErr(res.error)
    ELSE RunOk(run_mock_engine(w.uuid, e, case_id, document_ids).findings, FALSE)

\* EngineRunner::run_engine_with_options: Ok(EngineResult) or Err(string)
run_engine(r, w, e, case_id, document_ids) ==
    IF r.mock_mode
    THEN RunOk(run_mock_engine(w.uuid, e, case_id, document_ids).findings, TRUE)
    ELSE IF r.sidecar_path # None /\ path_exists(r.sidecar_path)
    THEN LET res == run_via_sidecar(w) IN
         IF res.ok THEN RunOk(res.findings, FALSE) ELSE RunErr(res.error)
    ELSE RunOk(run_mock_engine(w.uuid, e, case_id, document_ids).findings, TRUE)

\* struct EngineRequest
EngineRequest(engine_id, case_id, document_ids, options) ==
    [engine_id |-> engine_id, case_id |-> case_id,
     document_ids |-> document_ids, options |-> options]

\* serde_json::to_string(&request): the keys of the JSON object with their
\* values; `options` is skipped when it is None
request_json(request) ==
    {<<"engine_id", <<request.engine_id>> >>,
     <<"case_id", <<request.case_id>> >>,
     <<"document_ids", request.document_ids>>}
        \cup (IF request.options = None THEN {}
              ELSE {<<"options", <<request.options>> >>})

\* The request run_engine_with_options has run_via_sidecar build for the
\* worker, if it takes that path
sidecar_request(r, e, case_id, document_ids, options) ==
    IF ~r.mock_mode /\ r.sidecar_path # None /\ path_exists(r.sidecar_path)
    THEN Some(request_json(EngineRequest(to_string(e), case_id, document_ids,
                                         options)))
    ELSE Absent

\* EngineRunner::run_engine: run_engine_with_options without options
run_engine_request(r, e, case_id, document_ids) ==
    sidecar_request(r, e, case_id, document_ids, None)

\* ------------------------------------------------------------------- job
\* JobStatus
JobStatus == {"Pending", "Running", "Completed", "Failed", "Cancelled"}

NoResults == [e \in {} |-> Err("")]

\* HashMap::insert
insert(m, k, v) == [x \in DOMAIN m \cup {k} |-> IF x = k THEN v ELSE m[x]]

\* EngineJob::new. Timestamps are Absent or Some("t").
EngineJob_new(id, case_id, document_ids, engines) ==
    [id |-> id, case_id |-> case_id, document_ids |-> document_ids,
     engines |-> engines, status |-> "Pending", started_at |-> Absent,
     completed_at |-> Absent, results |-> NoResults]

\* Mutant of EngineJob_start: the time is written to completed_at.
EngineJob_start_sets_end(job, now) ==
    [job EXCEPT !.status = "Running", !.completed_at = Some(now)]

\* EngineJob::start; `now` is the value of Utc::now()
EngineJob_start(job, now) ==
    [job EXCEPT !.status = "Running", !.started_at = Some(now)]

\* EngineJob::complete; `now` is the value of Utc::now()
EngineJob_complete(job, now) ==
    [job EXCEPT !.status = "Completed", !.completed_at = Some(now)]

\* self.results.values().filter(|r| r.is_ok()).count()
count_ok(results) == Cardinality({e \in DOMAIN results : results[e].ok})
\* Mutant of count_err: the filter of the line above copied unchanged.
count_err_as_ok(results) == Cardinality({e \in DOMAIN results : results[e].ok})

\* self.results.values().filter(|r| r.is_err()).count()
count_err(results) == Cardinality({e \in DOMAIN results : ~results[e].ok})
\* self.results.len()
results_len(results) == Cardinality(DOMAIN results)

\* EngineJob::get_progress
job_get_progress(job) ==
    LET total == Len(job.engines)
        completed == results_len(job.results)
        succeeded == count_ok(job.results)
        failed == count_err(job.results)
    IN [job_id |-> job.id, case_id |-> job.case_id, status |-> job.status,
        total_engines |-> total, completed_engines |-> completed,
        succeeded_engines |-> succeeded, failed_engines |-> failed,
        duration_ms |->
            IF job.started_at # Absent /\ job.completed_at # Absent
            THEN Some("end - start")
            ELSE IF job.started_at # Absent THEN Some("now - start")
            ELSE Absent,
        current_engine |->
            IF completed < total /\ job.status = "Running"
            THEN Some(to_string(job.engines[completed + 1]))
            ELSE Absent]

\* `result` before run_engine has returned and after it has been consumed
NoResult == RunErr("")

\* locals of process_job at its start, with the options of the request its
\* job was submitted with and the request its last invocation built for the
\* worker
NewTask ==
    [pc |-> "lookup", names |-> <<>>, engines |-> <<>>, completed |-> 0,
     mock_mode_detected |-> FALSE, result |-> NoResult, options |-> None,
     request |-> Absent]

\* ------------------------------------------------------------ lock level
\* Jobs, callers and engines per job of the lock-level view
LockJobs == 2

MaxCallers == 2

LockEngines == 1

LockJobIds == 1..LockJobs
CallerIds == 1..MaxCallers

\* The threads that take locks: one process_job task per job, and the callers
Loop(j) == <<"loop", j>>
Caller(c) == <<"caller", c>>
Threads == {Loop(j) : j \in LockJobIds} \cup {Caller(c) : c \in CallerIds}

\* Arc::new(RwLock::new(HashMap::new())): nobody holds it, nobody waits
Unlocked == [readers |-> {}, writer |-> {}, queue |-> <<>>]

\* tokio's RwLock: readers share it, a writer has it alone
CanAcquire(l, write) ==
    IF write THEN l.readers = {} /\ l.writer = {} ELSE l.writer = {}

acquire(l, t, write) ==
    IF write THEN [l EXCEPT !.writer = {t}]
    ELSE [l EXCEPT !.readers = @ \cup {t}]

\* RwLock::read().await and RwLock::write().await reach the lock: granted at
\* once, or queued behind the requests that arrived earlier
lock_request(l, t, write) ==
    IF l.queue = <<>> /\ CanAcquire(l, write)
    THEN acquire(l, t, write)
    ELSE [l EXCEPT !.queue = Append(@, [thread |-> t, write |-> write])]

\* Mutant of release: a dropped write guard leaves the lock taken.
release_readers_only(l, t) == [l EXCEPT !.readers = @ \ {t}]

\* the guard is dropped
release(l, t) == [l EXCEPT !.readers = @ \ {t}, !.writer = @ \ {t}]

holds(l, t) == t \in l.readers \cup l.writer

queued(l, t) == \E i \in DOMAIN l.queue : l.queue[i].thread = t

\* A caller outside any call, and the task of a job that was not submitted
Idle == [op |-> "idle", job |-> 0, pc |-> "idle"]

NoLoop == [pc |-> "unspawned", completed |-> 0]

\* Chunks a pipe holds, chunks a worker writes to one stream at most, and
\* chunks of a request
PipeCap == 1

MaxChunks == 2

ReqChunks == 2

\* run_via_sidecar before its call: no worker process, empty pipes
NoSidecar ==
    [pc |-> "idle", result |-> Err(""), req_left |-> 0, line_read |-> 0,
     stdin_buf |-> 0, stdout_buf |-> 0, stderr_buf |-> 0,
     worker |-> "none", reaped |-> FALSE, terminates |-> FALSE,
     closes_early |-> FALSE, exit_ok |-> TRUE, line |-> <<>>,
     out_total |-> 0, out_left |-> 0, err_left |-> 0,
     w_stdin_open |-> FALSE, w_stderr_open |-> FALSE]

\* Values Uuid::new_v4 may return
Uuids == {"u1", "u2"}

\* What an invocation of a runner of its own may meet outside the program
Workers == {[w EXCEPT !.uuid = u] : w \in WorkerBehaviours, u \in Uuids}

\* Document id lists of an invocation
DocumentIdLists == {<<>>, <<"d1", "d2">>}

\* An EngineRunner of its own before any call of run_engine on it
NoInvocation ==
    [r |-> EngineRunner_new, engine_id |-> None, case_id |-> "",
     document_ids |-> <<>>, w |-> Worker(TRUE, TRUE, FALSE, TRUE, <<>>, "u1"),
     result |-> NoResult]

\* The catalog before any call of from_str or to_string
NoLookup == [name |-> "", id |-> None, shown_id |-> None, shown_name |-> ""]

\* Values of Utc::now()
Times == {"t1", "t2"}

\* An EngineJob of its own before it is constructed
NoJob == [op |-> "none", now |-> "", job |-> EngineJob_new(1, "", <<>>, <<>>)]

\* ---------------------------------------------------------------- state
VARIABLES
    active_jobs,   \* registry: job id -> EngineJob
    tasks,         \* job id -> locals of the submit call that registered
                   \* it, then of the process_job task that call spawned
    runner,        \* EngineOrchestrator.runner
    app_handle,    \* EngineOrchestrator.app_handle is Some(handle)
    shared,        \* the orchestrator is built and serving calls
    events,        \* job id -> notifications the sink received for it
    ret,           \* the call made in the last step and the value it returned
    cancelled_ok,  \* job id -> number of cancel_job calls that returned Ok
    \* the locks, seen one acquisition at a time
    active_jobs_lock,  \* the RwLock around the registry
    job_locks,         \* job id -> holders of the job's Mutex
    job_status,        \* job id -> status of the job behind that Mutex
    loops,             \* job id -> position of the job's process_job task
    callers,           \* caller -> the call it is in and its position
    \* one invocation of the worker process, seen one pipe operation at a time
    sidecar,
    \* an EngineRunner of its own and the last call of run_engine on it
    invocation,
    \* the last call of EngineId::from_str and the last call of to_string:
    \* argument and value of each
    catalog,
    \* an EngineJob of its own, the last method called on it and the value
    \* Utc::now() had in that call
    own_job

\* The state of the lock-level and of the process-level view
detail_vars == <<active_jobs_lock, job_locks, job_status, loops, callers,
                 sidecar, invocation, catalog, own_job>>

vars == <<active_jobs, tasks, runner, app_handle, shared, events, ret,
          cancelled_ok, detail_vars>>

\* A call and its return value: the job id is the one passed in or, for
\* submit, the one returned; `progress` holds the snapshots returned,
\* `findings` the findings returned; `emitted` holds the notifications the
\* call sent that belong to no job.
Call(op, job_id, engines, ok, error, progress) ==
    [op |-> op, job_id |-> job_id, engines |-> engines, ok |-> ok,
     error |-> error, progress |-> progress, findings |-> <<>>,
     emitted |-> <<>>]

NoCall == Call("none", 0, <<>>, TRUE, "", {})

\* EngineOrchestrator::new
Init ==
    /\ active_jobs = [j \in {} |-> EngineJob_new(j, "", <<>>, <<>>)]
    /\ tasks = [j \in {} |-> NewTask]
    /\ runner = EngineRunner_new
    /\ app_handle = FALSE
    /\ shared = FALSE
    /\ events = [j \in JobIds |-> <<>>]
    /\ ret = NoCall
    /\ cancelled_ok = [j \in JobIds |-> 0]
    /\ active_jobs_lock = Unlocked
    /\ job_locks = [j \in LockJobIds |-> {}]
    /\ job_status = [j \in LockJobIds |-> "Absent"]
    /\ loops = [j \in LockJobIds |-> NoLoop]
    /\ callers = [c \in CallerIds |-> Idle]
    /\ sidecar = NoSidecar
    /\ invocation = NoInvocation
    /\ catalog = NoLookup
    /\ own_job = NoJob

\* A notification: its name and the fields of its payload that vary
Event(type) ==
    [type |-> type, engine_id |-> "", completed |-> 0, total |-> 0,
     finding_count |-> 0, mock_mode |-> FALSE, error |-> ""]

\* EngineOrchestrator::emit_event and handle.emit: dropped without a sink
emit(log, job_id, event) ==
    IF app_handle THEN [log EXCEPT ![job_id] = Append(@, event)] ELSE log

\* -------------------------------------------------------------- builder
\* EngineOrchestrator::with_app_handle
with_app_handle ==
    /\ ~shared
    /\ app_handle' = TRUE
    /\ UNCHANGED <<active_jobs, tasks, runner, shared, events, ret,
                   cancelled_ok>>
    /\ UNCHANGED detail_vars

\* EngineOrchestrator::with_sidecar_path
with_sidecar_path(path) ==
    /\ ~shared
    /\ runner' = runner_with_sidecar_path(EngineRunner_new, path)
    /\ UNCHANGED <<active_jobs, tasks, app_handle, shared, events, ret,
                   cancelled_ok>>
    /\ UNCHANGED detail_vars

\* EngineOrchestrator::with_mock_mode
with_mock_mode(mock) ==
    /\ ~shared
    /\ runner' = runner_with_mock_mode(EngineRunner_new, mock)
    /\ UNCHANGED <<active_jobs, tasks, app_handle, shared, events, ret,
                   cancelled_ok>>
    /\ UNCHANGED detail_vars

\* ---------------------------------------------------------------- submit
\* Mutant of filter_map_from_str: the resolved ids are collected in reverse.
RECURSIVE filter_map_reversed(_)
filter_map_reversed(names) ==
    IF names = <<>> THEN <<>>
    ELSE LET rest == filter_map_reversed(Tail(names)) IN
         IF from_str(Head(names)) = None THEN rest
         ELSE rest \o <<from_str(Head(names))>>

\* request.engines.iter().filter_map(|s| EngineId::from_str(s)).collect()
RECURSIVE filter_map_from_str(_)
filter_map_from_str(names) ==
    IF names = <<>> THEN <<>>
    ELSE LET rest == filter_map_from_str(Tail(names)) IN
         IF from_str(Head(names)) = None THEN rest
         ELSE <<from_str(Head(names))>> \o rest

\* Mutant of is_empty: the emptiness check is missing.
is_empty_unchecked(engines) == FALSE

\* engines.is_empty()
is_empty(engines) == Len(engines) = 0

\* Uuid::new_v4: an id no job has; ids are interchangeable, the model takes
\* the next one
new_job_id == Cardinality(DOMAIN active_jobs) + 1

\* EngineOrchestrator::submit up to the release of the registry's write
\* lock (mod.rs 168-195); a rejected request returns here
submit(request) ==
    LET job_id == new_job_id
        engines == filter_map_from_str(request.engines)
    IN  IF is_empty(engines)
        THEN /\ ret' = Call("submit", 0, request.engines, FALSE,
                         "No valid engines specified", {})
             /\ shared' = TRUE
             /\ UNCHANGED <<active_jobs, tasks, runner, app_handle, events,
                            cancelled_ok, detail_vars>>
        ELSE /\ job_id \in DOMAIN events
             /\ active_jobs' = insert(active_jobs, job_id,
                    EngineJob_new(job_id, request.case_id,
                                  request.document_ids, engines))
             /\ tasks' = insert(tasks, job_id,
                    [NewTask EXCEPT !.pc = "submitted",
                                    !.names = request.engines,
                                    !.options = request.options])
             /\ ret' = NoCall
             /\ shared' = TRUE
             /\ UNCHANGED <<runner, app_handle, events, cancelled_ok,
                            detail_vars>>

\* EngineOrchestrator::submit after the registry lock is released: the
\* job_started notification, the spawn of process_job and the return of the
\* job id (mod.rs 197-217)
submit_spawn(j) ==
    /\ j \in DOMAIN tasks
    /\ tasks[j].pc = "submitted"
    /\ events' = emit(events, j, Event("engine:job_started"))
    /\ tasks' = [tasks EXCEPT ![j].pc = "lookup", ![j].names = <<>>]
    /\ ret' = Call("submit", j, tasks[j].names, TRUE, "", {})
    /\ UNCHANGED <<active_jobs, runner, app_handle, shared, cancelled_ok>>
    /\ UNCHANGED detail_vars

\* ----------------------------------------------------------- process_job
\* Mutant of loop_engine: the loop walks the catalog's active engines
\* instead of the job's own list.
loop_engine_from_catalog(engines, completed) == active_engines[completed + 1]

\* Mutant of loop_engine: the loop walks the job's list from its end.
loop_engine_backwards(engines, completed) == engines[Len(engines) - completed]

\* `engine_id` of `for engine_id in engines` in the iteration that follows
\* `completed` finished ones
loop_engine(engines, completed) == engines[completed + 1]

\* The head of `for engine_id in engines`: the next iteration or the end
loop_head(engines, completed) ==
    IF completed < Len(engines) THEN "check" ELSE "complete"

\* process_job: the registry lookup (mod.rs 229-241)
lookup_job(j) ==
    /\ j \in DOMAIN tasks
    /\ tasks[j].pc = "lookup"
    /\ tasks' = [tasks EXCEPT ![j].pc =
                    IF j \in DOMAIN active_jobs THEN "start" ELSE "done"]
    /\ ret' = NoCall
    /\ UNCHANGED <<active_jobs, runner, app_handle, shared, events,
                   cancelled_ok>>
    /\ UNCHANGED detail_vars

\* process_job: "Update status to running" (mod.rs 243-248)
set_running(j) ==
    /\ j \in DOMAIN tasks
    /\ tasks[j].pc = "start"
    /\ active_jobs' = [active_jobs EXCEPT ![j].status = "Running",
                                          ![j].started_at = Some("t")]
    /\ tasks' = [tasks EXCEPT ![j].pc = "read"]
    /\ ret' = NoCall
    /\ UNCHANGED <<runner, app_handle, shared, events, cancelled_ok>>
    /\ UNCHANGED detail_vars

\* process_job: "Get engines to run" and the loop's set-up (mod.rs 250-263)
read_engines(j) ==
    /\ j \in DOMAIN tasks
    /\ tasks[j].pc = "read"
    /\ tasks' = [tasks EXCEPT
                    ![j].engines = active_jobs[j].engines,
                    ![j].pc = loop_head(active_jobs[j].engines, 0)]
    /\ ret' = NoCall
    /\ UNCHANGED <<active_jobs, runner, app_handle, shared, events,
                   cancelled_ok>>
    /\ UNCHANGED detail_vars

\* process_job: "Check if job was cancelled" (mod.rs 264-271)
check_cancelled(j) ==
    /\ j \in DOMAIN tasks
    /\ tasks[j].pc = "check"
    /\ tasks' = [tasks EXCEPT ![j].pc =
                    IF active_jobs[j].status = "Cancelled"
                    THEN "done" ELSE "progress"]
    /\ ret' = NoCall
    /\ UNCHANGED <<active_jobs, runner, app_handle, shared, events,
                   cancelled_ok>>
    /\ UNCHANGED detail_vars

\* process_job: "Emit progress" and the call of run_engine (mod.rs 273-291)
emit_progress(j) ==
    /\ j \in DOMAIN tasks
    /\ tasks[j].pc = "progress"
    /\ events' = emit(events, j,
            [Event("engine:progress") EXCEPT
                !.engine_id = to_string(loop_engine(tasks[j].engines,
                                                   tasks[j].completed)),
                !.completed = tasks[j].completed,
                !.total = Len(tasks[j].engines)])
    /\ tasks' = [tasks EXCEPT ![j].pc = "run"]
    /\ ret' = NoCall
    /\ UNCHANGED <<active_jobs, runner, app_handle, shared, cancelled_ok>>
    /\ UNCHANGED detail_vars

\* process_job: runner.run_engine(...).await returns (mod.rs 287-291)
engine_returns(j) ==
    /\ j \in DOMAIN tasks
    /\ tasks[j].pc = "run"
    /\ \E w \in WorkerBehaviours :
          tasks' = [tasks EXCEPT
              ![j].result = run_engine(runner, w,
                                loop_engine(tasks[j].engines,
                                            tasks[j].completed),
                                active_jobs[j].case_id,
                                active_jobs[j].document_ids),
              ![j].request = run_engine_request(runner,
                                loop_engine(tasks[j].engines,
                                            tasks[j].completed),
                                active_jobs[j].case_id,
                                active_jobs[j].document_ids),
              ![j].pc = "record"]
    /\ ret' = NoCall
    /\ UNCHANGED <<active_jobs, runner, app_handle, shared, events,
                   cancelled_ok>>
    /\ UNCHANGED detail_vars

\* Mutant of first_mock_use: the mock_mode_detected flag is not consulted.
every_mock_use(result, mock_mode_detected) ==
    result.ok /\ result.used_mock_mode

\* `engine_result.used_mock_mode && !mock_mode_detected` in the Ok arm
first_mock_use(result, mock_mode_detected) ==
    result.ok /\ result.used_mock_mode /\ ~mock_mode_detected

\* Mutant of record_result: the Err arm returns from process_job after
\* recording the failure.
record_result_abort_on_err(j) ==
    /\ j \in DOMAIN tasks
    /\ tasks[j].pc = "record"
    /\ LET t == tasks[j]
           engine_id == loop_engine(t.engines, t.completed)
           result == t.result
           first_mock == first_mock_use(result, t.mock_mode_detected)
       IN  /\ IF result.ok
              THEN /\ active_jobs' = [active_jobs EXCEPT ![j].results =
                          insert(@, engine_id, Ok(result.findings))]
                   /\ events' =
                        emit(IF first_mock
                             THEN emit(events, j, Event("engine:mock_mode"))
                             ELSE events,
                             j,
                             [Event("engine:finding") EXCEPT
                                 !.engine_id = to_string(engine_id),
                                 !.finding_count = Len(result.findings),
                                 !.mock_mode = result.used_mock_mode])
              ELSE /\ active_jobs' = [active_jobs EXCEPT ![j].results =
                          insert(@, engine_id, Err(result.error))]
                   /\ events' = emit(events, j,
                          [Event("engine:error") EXCEPT
                              !.engine_id = to_string(engine_id),
                              !.error = result.error])
           /\ tasks' = [tasks EXCEPT
                  ![j].mock_mode_detected = t.mock_mode_detected \/ first_mock,
                  ![j].completed = t.completed + 1,
                  ![j].result = NoResult,
                  ![j].pc = IF result.ok
                           THEN loop_head(t.engines, t.completed + 1)
                           ELSE "done"]
    /\ ret' = NoCall
    /\ UNCHANGED <<runner, app_handle, shared, cancelled_ok>>
    /\ UNCHANGED detail_vars

\* Mutant of record_result: the Err arm emits the error notification but
\* leaves the result map as it is.
record_result_drops_err(j) ==
    /\ j \in DOMAIN tasks
    /\ tasks[j].pc = "record"
    /\ LET t == tasks[j]
           engine_id == loop_engine(t.engines, t.completed)
           result == t.result
           first_mock == first_mock_use(result, t.mock_mode_detected)
       IN  /\ IF result.ok
              THEN /\ active_jobs' = [active_jobs EXCEPT ![j].results =
                          insert(@, engine_id, Ok(result.findings))]
                   /\ events' =
                        emit(IF first_mock
                             THEN emit(events, j, Event("engine:mock_mode"))
                             ELSE events,
                             j,
                             [Event("engine:finding") EXCEPT
                                 !.engine_id = to_string(engine_id),
                                 !.finding_count = Len(result.findings),
                                 !.mock_mode = result.used_mock_mode])
              ELSE /\ active_jobs' = active_jobs
                   /\ events' = emit(events, j,
                          [Event("engine:error") EXCEPT
                              !.engine_id = to_string(engine_id),
                              !.error = result.error])
           /\ tasks' = [tasks EXCEPT
                  ![j].mock_mode_detected = t.mock_mode_detected \/ first_mock,
                  ![j].completed = t.completed + 1,
                  ![j].result = NoResult,
                  ![j].pc = loop_head(t.engines, t.completed + 1)]
    /\ ret' = NoCall
    /\ UNCHANGED <<runner, app_handle, shared, cancelled_ok>>
    /\ UNCHANGED detail_vars

\* Mutant of record_result: the outcome of an invocation is thrown away and
\* the task ends when it finds the job Cancelled.
record_result_unless_cancelled(j) ==
    /\ j \in DOMAIN tasks
    /\ tasks[j].pc = "record"
    /\ IF active_jobs[j].status = "Cancelled"
       THEN /\ tasks' = [tasks EXCEPT ![j].result = NoResult,
                                      ![j].pc = "done"]
            /\ UNCHANGED <<active_jobs, events>>
       ELSE
       LET t == tasks[j]
           engine_id == loop_engine(t.engines, t.completed)
           result == t.result
           first_mock == first_mock_use(result, t.mock_mode_detected)
       IN  /\ IF result.ok
              THEN /\ active_jobs' = [active_jobs EXCEPT ![j].results =
                          insert(@, engine_id, Ok(result.findings))]
                   /\ events' =
                        emit(IF first_mock
                             THEN emit(events, j, Event("engine:mock_mode"))
                             ELSE events,
                             j,
                             [Event("engine:finding") EXCEPT
                                 !.engine_id = to_string(engine_id),
                                 !.finding_count = Len(result.findings),
                                 !.mock_mode = result.used_mock_mode])
              ELSE /\ active_jobs' = [active_jobs EXCEPT ![j].results =
                          insert(@, engine_id, Err(result.error))]
                   /\ events' = emit(events, j,
                          [Event("engine:error") EXCEPT
                              !.engine_id = to_string(engine_id),
                              !.error = result.error])
           /\ tasks' = [tasks EXCEPT
                  ![j].mock_mode_detected = t.mock_mode_detected \/ first_mock,
                  ![j].completed = t.completed + 1,
                  ![j].result = NoResult,
                  ![j].pc = loop_head(t.engines, t.completed + 1)]
    /\ ret' = NoCall
    /\ UNCHANGED <<runner, app_handle, shared, cancelled_ok>>
    /\ UNCHANGED detail_vars

\* process_job: "Update job with result" and `completed += 1` (mod.rs 293-345)
record_result(j) ==
    /\ j \in DOMAIN tasks
    /\ tasks[j].pc = "record"
    /\ LET t == tasks[j]
           engine_id == loop_engine(t.engines, t.completed)
           result == t.result
           first_mock == first_mock_use(result, t.mock_mode_detected)
       IN  /\ IF result.ok
              THEN /\ active_jobs' = [active_jobs EXCEPT ![j].results =
                          insert(@, engine_id, Ok(result.findings))]
                   /\ events' =
                        emit(IF first_mock
                             THEN emit(events, j, Event("engine:mock_mode"))
                             ELSE events,
                             j,
                             [Event("engine:finding") EXCEPT
                                 !.engine_id = to_string(engine_id),
                                 !.finding_count = Len(result.findings),
                                 !.mock_mode = result.used_mock_mode])
              ELSE /\ active_jobs' = [active_jobs EXCEPT ![j].results =
                          insert(@, engine_id, Err(result.error))]
                   /\ events' = emit(events, j,
                          [Event("engine:error") EXCEPT
                              !.engine_id = to_string(engine_id),
                              !.error = result.error])
           /\ tasks' = [tasks EXCEPT
                  ![j].mock_mode_detected = t.mock_mode_detected \/ first_mock,
                  ![j].completed = t.completed + 1,
                  ![j].result = NoResult,
                  ![j].pc = loop_head(t.engines, t.completed + 1)]
    /\ ret' = NoCall
    /\ UNCHANGED <<runner, app_handle, shared, cancelled_ok>>
    /\ UNCHANGED detail_vars

\* Mutant of set_completed: a job none of whose engines succeeded is marked
\* Failed.
set_completed_or_failed(j) ==
    /\ j \in DOMAIN tasks
    /\ tasks[j].pc = "complete"
    /\ active_jobs' = [active_jobs EXCEPT
            ![j].status = IF count_ok(active_jobs[j].results) = 0
                          THEN "Failed" ELSE "Completed",
            ![j].completed_at = Some("t")]
    /\ tasks' = [tasks EXCEPT ![j].pc = "emit_complete"]
    /\ ret' = NoCall
    /\ UNCHANGED <<runner, app_handle, shared, events, cancelled_ok>>
    /\ UNCHANGED detail_vars

\* process_job: "Mark job as complete" (mod.rs 347-352)
set_completed(j) ==
    /\ j \in DOMAIN tasks
    /\ tasks[j].pc = "complete"
    /\ active_jobs' = [active_jobs EXCEPT ![j].status = "Completed",
                                          ![j].completed_at = Some("t")]
    /\ tasks' = [tasks EXCEPT ![j].pc = "emit_complete"]
    /\ ret' = NoCall
    /\ UNCHANGED <<runner, app_handle, shared, events, cancelled_ok>>
    /\ UNCHANGED detail_vars

\* process_job: "Emit completion event" (mod.rs 354-363)
emit_complete(j) ==
    /\ j \in DOMAIN tasks
    /\ tasks[j].pc = "emit_complete"
    /\ events' = emit(events, j,
            [Event("engine:complete") EXCEPT
                !.completed = tasks[j].completed])
    /\ tasks' = [tasks EXCEPT ![j].pc = "done"]
    /\ ret' = NoCall
    /\ UNCHANGED <<active_jobs, runner, app_handle, shared, cancelled_ok>>
    /\ UNCHANGED detail_vars

\* One step of the task spawned for job j
process_job(j) ==
    \/ lookup_job(j)
    \/ set_running(j)
    \/ read_engines(j)
    \/ check_cancelled(j)
    \/ emit_progress(j)
    \/ engine_returns(j)
    \/ record_result(j)
    \/ set_completed(j)
    \/ emit_complete(j)

\* ------------------------------------------------------------ caller API
\* Mutant of cancellable: every job that is not Completed can be cancelled.
cancellable_unless_completed(status) == status # "Completed"

\* Mutant of cancellable: every job that has been started can be cancelled.
cancellable_once_started(status) == status # "Pending"

\* the test of cancel_job: job.status == Running || job.status == Pending
cancellable(status) == status = "Running" \/ status = "Pending"

\* Mutant of cancel_job: the call is refused when there is no sink to tell.
cancel_job_needs_sink(job_id) ==
    /\ shared' = TRUE
    /\ IF job_id \in DOMAIN active_jobs
       THEN IF cancellable(active_jobs[job_id].status) /\ app_handle
            THEN /\ active_jobs' =
                      [active_jobs EXCEPT ![job_id].status = "Cancelled"]
                 /\ events' = emit(events, job_id,
                                   Event("engine:cancelled"))
                 /\ cancelled_ok' = [cancelled_ok EXCEPT ![job_id] = @ + 1]
                 /\ ret' = Call("cancel_job", job_id, <<>>, TRUE, "", {})
            ELSE /\ ret' = Call("cancel_job", job_id, <<>>, FALSE,
                             "Job is not running", {})
                 /\ UNCHANGED <<active_jobs, events, cancelled_ok>>
       ELSE /\ ret' = Call("cancel_job", job_id, <<>>, FALSE,
                        "Job not found", {})
            /\ UNCHANGED <<active_jobs, events, cancelled_ok>>
    /\ UNCHANGED <<tasks, runner, app_handle>>
    /\ UNCHANGED detail_vars

\* EngineOrchestrator::cancel_job
cancel_job(job_id) ==
    /\ shared' = TRUE
    /\ IF job_id \in DOMAIN active_jobs
       THEN IF cancellable(active_jobs[job_id].status)
            THEN /\ active_jobs' =
                      [active_jobs EXCEPT ![job_id].status = "Cancelled"]
                 /\ events' = emit(events, job_id,
                                   Event("engine:cancelled"))
                 /\ cancelled_ok' = [cancelled_ok EXCEPT ![job_id] = @ + 1]
                 /\ ret' = Call("cancel_job", job_id, <<>>, TRUE, "", {})
            ELSE /\ ret' = Call("cancel_job", job_id, <<>>, FALSE,
                             "Job is not running", {})
                 /\ UNCHANGED <<active_jobs, events, cancelled_ok>>
       ELSE /\ ret' = Call("cancel_job", job_id, <<>>, FALSE,
                        "Job not found", {})
            /\ UNCHANGED <<active_jobs, events, cancelled_ok>>
    /\ UNCHANGED <<tasks, runner, app_handle>>
    /\ UNCHANGED detail_vars

\* EngineOrchestrator::get_progress
get_progress(job_id) ==
    /\ shared' = TRUE
    /\ ret' = Call("get_progress", job_id, <<>>, TRUE, "",
                    IF job_id \in DOMAIN active_jobs
                    THEN {job_get_progress(active_jobs[job_id])}
                    ELSE {})
    /\ UNCHANGED <<active_jobs, tasks, runner, app_handle, events,
                   cancelled_ok>>
    /\ UNCHANGED detail_vars

\* EngineOrchestrator::list_jobs; the order of the Vec is the map's
list_jobs ==
    /\ shared' = TRUE
    /\ ret' = Call("list_jobs", 0, <<>>, TRUE, "",
                    {job_get_progress(active_jobs[j]) :
                         j \in DOMAIN active_jobs})
    /\ UNCHANGED <<active_jobs, tasks, runner, app_handle, events,
                   cancelled_ok>>
    /\ UNCHANGED detail_vars

\* Engines run_single_engine is called with: one with a mock of its own and
\* one without
SingleEngines == {"Contradiction", "BiasCascade"}

\* Mutant of run_single_engine: the warning is sent after every success.
run_single_engine_always_warns(engine_id, case_id, document_ids) ==
    /\ shared' = TRUE
    /\ \E w \in WorkerBehaviours :
          LET result == run_engine(runner, w, engine_id, case_id,
                                   document_ids)
          IN ret' = [Call("run_single_engine", 0, <<engine_id>>, result.ok,
                          result.error, {})
                        EXCEPT !.findings = result.findings,
                               !.emitted =
                                   IF result.ok /\ app_handle
                                   THEN <<Event("engine:mock_mode")>>
                                   ELSE <<>>]
    /\ UNCHANGED <<active_jobs, tasks, runner, app_handle, events,
                   cancelled_ok>>
    /\ UNCHANGED detail_vars

\* EngineOrchestrator::run_single_engine: the `?` returns the runner's
\* error; the warning goes to the sink directly, without a job id
run_single_engine(engine_id, case_id, document_ids) ==
    /\ shared' = TRUE
    /\ \E w \in WorkerBehaviours :
          LET result == run_engine(runner, w, engine_id, case_id,
                                   document_ids)
          IN ret' = [Call("run_single_engine", 0, <<engine_id>>, result.ok,
                          result.error, {})
                        EXCEPT !.findings = result.findings,
                               !.emitted =
                                   IF result.ok /\ result.used_mock_mode
                                      /\ app_handle
                                   THEN <<Event("engine:mock_mode")>>
                                   ELSE <<>>]
    /\ UNCHANGED <<active_jobs, tasks, runner, app_handle, events,
                   cancelled_ok>>
    /\ UNCHANGED detail_vars

\* Values of max_age: no time at all, and longer than any job is old
MaxAges == {"zero", "an hour"}

\* Mutant of cleanup_old_jobs: the jobs that are completed are removed.
cleanup_old_jobs_removing(max_age) ==
    /\ shared' = TRUE
    /\ active_jobs' =
          [j \in {x \in DOMAIN active_jobs :
                      active_jobs[x].completed_at = Absent} |->
              active_jobs[j]]
    /\ ret' = Call("cleanup_old_jobs", 0, <<>>, TRUE, "", {})
    /\ UNCHANGED <<tasks, runner, app_handle, events, cancelled_ok>>
    /\ UNCHANGED detail_vars

\* EngineOrchestrator::cleanup_old_jobs: the jobs older than max_age are
\* logged, the map is iterated and left as it is
cleanup_old_jobs(max_age) ==
    /\ shared' = TRUE
    /\ ret' = Call("cleanup_old_jobs", 0, <<>>, TRUE, "", {})
    /\ UNCHANGED <<active_jobs, tasks, runner, app_handle, events,
                   cancelled_ok>>
    /\ UNCHANGED detail_vars

\* ------------------------------------------------------- specification
Next ==
    \/ with_app_handle
    \/ \E path \in SidecarPaths : with_sidecar_path(path)
    \/ \E mock \in BOOLEAN : with_mock_mode(mock)
    \/ \E request \in AnalysisRequest : submit(request)
    \/ \E j \in JobIds : submit_spawn(j)
    \/ \E j \in JobIds : process_job(j)
    \/ \E job_id \in CallIds : cancel_job(job_id)
    \/ \E job_id \in CallIds : get_progress(job_id)
    \/ list_jobs

Spec == Init /\ [][Next]_vars

\* The orchestrator with the two operations that belong to no job, called
\* while jobs of one or two engines are submitted, run and cancelled
DirectRequests ==
    {r \in AnalysisRequest :
        r.engines \in {<<"bogus_engine">>, <<"temporal", "bogus_engine">>,
                       <<"contradiction", "temporal_parser">>}}

DirectNext ==
    \/ with_app_handle
    \/ \E path \in SidecarPaths : with_sidecar_path(path)
    \/ \E mock \in BOOLEAN : with_mock_mode(mock)
    \/ \E request \in DirectRequests : submit(request)
    \/ \E j \in JobIds : submit_spawn(j)
    \/ \E j \in JobIds : process_job(j)
    \/ \E job_id \in CallIds : cancel_job(job_id)
    \/ \E job_id \in CallIds : get_progress(job_id)
    \/ list_jobs
    \/ \E engine_id \in SingleEngines :
          run_single_engine(engine_id, "c1", <<"d1", "d2">>)
    \/ \E max_age \in MaxAges : cleanup_old_jobs(max_age)

DirectSpec == Init /\ [][DirectNext]_vars

\* The orchestrator serving two jobs of one engine each, with or without a
\* worker path: each job has its task, and callers address either job.
PairJobs == 2

PairJobIds == 1..PairJobs

PairRequests ==
    {r \in AnalysisRequest : r.engines \in {<<"bogus_engine">>, <<"temporal">>}}

\* EngineOrchestrator::new, with room for PairJobs jobs
PairInit ==
    /\ active_jobs = [j \in {} |-> EngineJob_new(j, "", <<>>, <<>>)]
    /\ tasks = [j \in {} |-> NewTask]
    /\ runner = EngineRunner_new
    /\ app_handle = FALSE
    /\ shared = FALSE
    /\ events = [j \in PairJobIds |-> <<>>]
    /\ ret = NoCall
    /\ cancelled_ok = [j \in PairJobIds |-> 0]
    /\ active_jobs_lock = Unlocked
    /\ job_locks = [j \in LockJobIds |-> {}]
    /\ job_status = [j \in LockJobIds |-> "Absent"]
    /\ loops = [j \in LockJobIds |-> NoLoop]
    /\ callers = [c \in CallerIds |-> Idle]
    /\ sidecar = NoSidecar
    /\ invocation = NoInvocation
    /\ catalog = NoLookup
    /\ own_job = NoJob

PairNext ==
    \/ \E path \in SidecarPaths : with_sidecar_path(path)
    \/ \E request \in PairRequests : submit(request)
    \/ \E j \in PairJobIds : submit_spawn(j)
    \/ \E j \in PairJobIds : process_job(j)
    \/ \E job_id \in PairJobIds : cancel_job(job_id)
    \/ \E job_id \in PairJobIds : get_progress(job_id)
    \/ list_jobs

PairSpec == PairInit /\ [][PairNext]_vars

\* The orchestrator given requests with and without options, and its jobs
\* run with the worker or with the fallback
OptionRequests ==
    {[case_id |-> "c1", document_ids |-> <<"d1", "d2">>, engines |-> l,
      options |-> o] :
        l \in {<<"contradiction">>, <<"temporal", "contradiction">>},
        o \in {None, "{depth:2}"}}

OptionNext ==
    \/ \E path \in SidecarPaths : with_sidecar_path(path)
    \/ \E mock \in BOOLEAN : with_mock_mode(mock)
    \/ \E request \in OptionRequests : submit(request)
    \/ \E j \in JobIds : submit_spawn(j)
    \/ \E j \in JobIds : process_job(j)

OptionSpec == Init /\ [][OptionNext]_vars

\* The runtime schedules every spawned task, and an engine invocation ends
\* by itself or by its 180 s timeout: each task keeps taking steps. A submit
\* call that has registered its job runs on to its return without awaiting.
FairSpec ==
    Spec /\ \A j \in JobIds : WF_vars(submit_spawn(j)) /\ WF_vars(process_job(j))

\* ============================================================ lock level
\* The same orchestrator seen one lock operation at a time: what a task or a
\* caller holds and what it waits for. Jobs have LockEngines engines each.
orch_vars == <<active_jobs, tasks, runner, app_handle, shared, events, ret,
               cancelled_ok, invocation, catalog, own_job>>

\* The registry hands the lock to the request at the head of its queue
registry_grant ==
    /\ active_jobs_lock.queue # <<>>
    /\ CanAcquire(active_jobs_lock, Head(active_jobs_lock.queue).write)
    /\ active_jobs_lock' =
          acquire([active_jobs_lock EXCEPT !.queue = Tail(@)],
                  Head(active_jobs_lock.queue).thread,
                  Head(active_jobs_lock.queue).write)
    /\ UNCHANGED <<job_locks, job_status, loops, callers, sidecar, orch_vars>>

\* process_job: active_jobs.read().await (mod.rs 231)
process_job_read_registry(j) ==
    /\ loops[j].pc = "lookup"
    /\ ~holds(active_jobs_lock, Loop(j))
    /\ ~queued(active_jobs_lock, Loop(j))
    /\ active_jobs_lock' = lock_request(active_jobs_lock, Loop(j), FALSE)
    /\ UNCHANGED <<job_locks, job_status, loops, callers, sidecar, orch_vars>>

\* process_job: jobs.get(&job_id).cloned() and the drop of the read guard
\* (mod.rs 230-241)
process_job_lookup(j) ==
    /\ loops[j].pc = "lookup"
    /\ holds(active_jobs_lock, Loop(j))
    /\ active_jobs_lock' = release(active_jobs_lock, Loop(j))
    /\ loops' = [loops EXCEPT ![j].pc =
                    IF job_status[j] # "Absent" THEN "start" ELSE "done"]
    /\ UNCHANGED <<job_locks, job_status, callers, sidecar, orch_vars>>

\* The positions of process_job at which it takes the job's lock
LockedBlocks == {"start", "read", "check", "record", "complete"}

\* process_job: job_arc.lock().await (mod.rs 245, 252, 266, 295, 349)
process_job_lock(j) ==
    /\ loops[j].pc \in LockedBlocks
    /\ Loop(j) \notin job_locks[j]
    /\ job_locks[j] = {}
    /\ job_locks' = [job_locks EXCEPT ![j] = {Loop(j)}]
    /\ UNCHANGED <<active_jobs_lock, job_status, loops, callers, sidecar,
                   orch_vars>>

\* The head of the loop over the job's engines
lock_loop_head(completed) ==
    IF completed < LockEngines THEN "check" ELSE "complete"

\* process_job: "Update status to running" under the job's lock (mod.rs 243-248)
process_job_set_running(j) ==
    /\ loops[j].pc = "start"
    /\ Loop(j) \in job_locks[j]
    /\ job_status' = [job_status EXCEPT ![j] = "Running"]
    /\ job_locks' = [job_locks EXCEPT ![j] = {}]
    /\ loops' = [loops EXCEPT ![j].pc = "read"]
    /\ UNCHANGED <<active_jobs_lock, callers, sidecar, orch_vars>>

\* process_job: "Get engines to run" under the job's lock (mod.rs 250-263)
process_job_read_engines(j) ==
    /\ loops[j].pc = "read"
    /\ Loop(j) \in job_locks[j]
    /\ job_locks' = [job_locks EXCEPT ![j] = {}]
    /\ loops' = [loops EXCEPT ![j].pc = lock_loop_head(0)]
    /\ UNCHANGED <<active_jobs_lock, job_status, callers, sidecar, orch_vars>>

\* Mutant of process_job_check_cancelled: the guard taken for the check
\* lives on into the invocation.
process_job_check_keeps_lock(j) ==
    /\ loops[j].pc = "check"
    /\ Loop(j) \in job_locks[j]
    /\ loops' = [loops EXCEPT ![j].pc =
                    IF job_status[j] = "Cancelled" THEN "done" ELSE "run"]
    /\ UNCHANGED <<active_jobs_lock, job_locks, job_status, callers, sidecar,
                   orch_vars>>

\* process_job: "Check if job was cancelled" under the job's lock, the
\* progress notification and the call of run_engine (mod.rs 264-291)
process_job_check_cancelled(j) ==
    /\ loops[j].pc = "check"
    /\ Loop(j) \in job_locks[j]
    /\ job_locks' = [job_locks EXCEPT ![j] = {}]
    /\ loops' = [loops EXCEPT ![j].pc =
                    IF job_status[j] = "Cancelled" THEN "done" ELSE "run"]
    /\ UNCHANGED <<active_jobs_lock, job_status, callers, sidecar, orch_vars>>

\* process_job: runner.run_engine(...).await returns (mod.rs 287-291)
process_job_engine_returns(j) ==
    /\ loops[j].pc = "run"
    /\ loops' = [loops EXCEPT ![j].pc = "record"]
    /\ UNCHANGED <<active_jobs_lock, job_locks, job_status, callers, sidecar,
                   orch_vars>>

\* process_job: "Update job with result" under the job's lock and
\* `completed += 1` (mod.rs 293-345)
process_job_record_result(j) ==
    /\ loops[j].pc = "record"
    /\ Loop(j) \in job_locks[j]
    /\ job_locks' = [job_locks EXCEPT ![j] = {}]
    /\ loops' = [loops EXCEPT
                    ![j].completed = @ + 1,
                    ![j].pc = lock_loop_head(loops[j].completed + 1)]
    /\ UNCHANGED <<active_jobs_lock, job_status, callers, sidecar, orch_vars>>

\* process_job: "Mark job as complete" under the job's lock (mod.rs 347-352)
process_job_set_completed(j) ==
    /\ loops[j].pc = "complete"
    /\ Loop(j) \in job_locks[j]
    /\ job_status' = [job_status EXCEPT ![j] = "Completed"]
    /\ job_locks' = [job_locks EXCEPT ![j] = {}]
    /\ loops' = [loops EXCEPT ![j].pc = "done"]
    /\ UNCHANGED <<active_jobs_lock, callers, sidecar, orch_vars>>

\* The steps of process_job that do not depend on the worker
process_job_step(j) ==
    \/ process_job_read_registry(j)
    \/ process_job_lookup(j)
    \/ process_job_lock(j)
    \/ process_job_set_running(j)
    \/ process_job_read_engines(j)
    \/ process_job_check_cancelled(j)
    \/ process_job_record_result(j)
    \/ process_job_set_completed(j)

\* The jobs in the registry
Registered == {j \in LockJobIds : job_status[j] # "Absent"}

\* A call takes the registry lock exclusively or shared
takes_write(op) == op \in {"submit", "cancel_job"}

\* A caller enters submit, get_progress, cancel_job or list_jobs and asks for
\* the registry lock (mod.rs 193, 368, 379, 398)
call(c, op, job_id) ==
    /\ callers[c].pc = "idle"
    /\ op = "submit" =>
          Cardinality(Registered)
              + Cardinality({x \in CallerIds : callers[x].op = "submit"})
          < LockJobs
    /\ callers' = [callers EXCEPT
                      ![c] = [op |-> op, job |-> job_id, pc |-> "registry"]]
    /\ active_jobs_lock' =
          lock_request(active_jobs_lock, Caller(c), takes_write(op))
    /\ UNCHANGED <<job_locks, job_status, loops, sidecar, orch_vars>>

\* submit: the insert under the write lock, then tokio::spawn (mod.rs 192-215)
submit_insert(c) ==
    /\ callers[c].op = "submit"
    /\ callers[c].pc = "registry"
    /\ holds(active_jobs_lock, Caller(c))
    /\ LET job_id == Cardinality(Registered) + 1 IN
          /\ job_status' = [job_status EXCEPT ![job_id] = "Pending"]
          /\ loops' = [loops EXCEPT ![job_id].pc = "lookup"]
    /\ active_jobs_lock' = release(active_jobs_lock, Caller(c))
    /\ callers' = [callers EXCEPT ![c] = Idle]
    /\ UNCHANGED <<job_locks, sidecar, orch_vars>>

\* get_progress, cancel_job: jobs.get(job_id) under the registry lock
\* (mod.rs 369, 380); an unknown id ends the call
lookup(c) ==
    /\ callers[c].op \in {"get_progress", "cancel_job"}
    /\ callers[c].pc = "registry"
    /\ holds(active_jobs_lock, Caller(c))
    /\ IF callers[c].job \in Registered
       THEN /\ callers' = [callers EXCEPT ![c].pc = "job"]
            /\ UNCHANGED active_jobs_lock
       ELSE /\ callers' = [callers EXCEPT ![c] = Idle]
            /\ active_jobs_lock' = release(active_jobs_lock, Caller(c))
    /\ UNCHANGED <<job_locks, job_status, loops, sidecar, orch_vars>>

\* list_jobs: the start of `for job_arc in jobs.values()` (mod.rs 398-400)
list_jobs_first(c) ==
    /\ callers[c].op = "list_jobs"
    /\ callers[c].pc = "registry"
    /\ holds(active_jobs_lock, Caller(c))
    /\ IF Registered # {}
       THEN /\ callers' = [callers EXCEPT ![c].pc = "job", ![c].job = 1]
            /\ UNCHANGED active_jobs_lock
       ELSE /\ callers' = [callers EXCEPT ![c] = Idle]
            /\ active_jobs_lock' = release(active_jobs_lock, Caller(c))
    /\ UNCHANGED <<job_locks, job_status, loops, sidecar, orch_vars>>

\* get_progress, cancel_job, list_jobs: job_arc.lock().await with the
\* registry lock held (mod.rs 370, 381, 401)
lock_job(c) ==
    /\ callers[c].pc = "job"
    /\ job_locks[callers[c].job] = {}
    /\ job_locks' = [job_locks EXCEPT ![callers[c].job] = {Caller(c)}]
    /\ callers' = [callers EXCEPT ![c].pc = "locked"]
    /\ UNCHANGED <<active_jobs_lock, job_status, loops, sidecar, orch_vars>>

\* get_progress: the snapshot and the drop of both guards (mod.rs 371-375)
get_progress_return(c) ==
    /\ callers[c].op = "get_progress"
    /\ callers[c].pc = "locked"
    /\ job_locks' = [job_locks EXCEPT ![callers[c].job] = {}]
    /\ active_jobs_lock' = release(active_jobs_lock, Caller(c))
    /\ callers' = [callers EXCEPT ![c] = Idle]
    /\ UNCHANGED <<job_status, loops, sidecar, orch_vars>>

\* cancel_job: the status test and write, and the drop of both guards
\* (mod.rs 382-394)
cancel_job_return(c) ==
    /\ callers[c].op = "cancel_job"
    /\ callers[c].pc = "locked"
    /\ job_status' = [job_status EXCEPT ![callers[c].job] =
                          IF cancellable(@) THEN "Cancelled" ELSE @]
    /\ job_locks' = [job_locks EXCEPT ![callers[c].job] = {}]
    /\ active_jobs_lock' = release(active_jobs_lock, Caller(c))
    /\ callers' = [callers EXCEPT ![c] = Idle]
    /\ UNCHANGED <<loops, sidecar, orch_vars>>

\* list_jobs: the end of one iteration of the loop over the registry's jobs,
\* and after the last one the drop of the read guard (mod.rs 400-405)
list_jobs_next(c) ==
    /\ callers[c].op = "list_jobs"
    /\ callers[c].pc = "locked"
    /\ job_locks' = [job_locks EXCEPT ![callers[c].job] = {}]
    /\ IF callers[c].job + 1 \in Registered
       THEN /\ callers' = [callers EXCEPT ![c].pc = "job", ![c].job = @ + 1]
            /\ UNCHANGED active_jobs_lock
       ELSE /\ callers' = [callers EXCEPT ![c] = Idle]
            /\ active_jobs_lock' = release(active_jobs_lock, Caller(c))
    /\ UNCHANGED <<job_status, loops, sidecar, orch_vars>>

\* The steps of a call after its entry
call_step(c) ==
    \/ submit_insert(c)
    \/ lookup(c)
    \/ list_jobs_first(c)
    \/ lock_job(c)
    \/ get_progress_return(c)
    \/ cancel_job_return(c)
    \/ list_jobs_next(c)

LockNext ==
    \/ \E c \in CallerIds : call(c, "submit", 0)
    \/ \E c \in CallerIds : call(c, "list_jobs", 0)
    \/ \E c \in CallerIds : \E job_id \in LockJobIds :
          \E op \in {"get_progress", "cancel_job"} : call(c, op, job_id)
    \/ \E c \in CallerIds : call_step(c)
    \/ registry_grant
    \/ \E j \in LockJobIds : process_job_step(j)
    \/ \E j \in LockJobIds : process_job_engine_returns(j)

LockSpec == Init /\ [][LockNext]_vars


\* --------------------------------------------------------------- claims
Progress(j) == job_get_progress(active_jobs[j])

\* C1: the only status changes of a job are Pending->Running,
\* Running->Completed, Running->Cancelled and Pending->Cancelled; a status
\* of Cancelled is never overwritten by the execution loop.
C1_OnlyDocumentedTransitions ==
    [][\A j \in DOMAIN active_jobs :
          LET from == active_jobs[j].status
              to == active_jobs'[j].status
          IN  \/ from = to
              \/ <<from, to>> \in {<<"Pending", "Running">>,
                                   <<"Running", "Completed">>,
                                   <<"Running", "Cancelled">>,
                                   <<"Pending", "Cancelled">>}]_vars

\* C2: cancel_job returns Ok at most once for a job.
C2_CancelSucceedsAtMostOnce ==
    \A j \in JobIds : cancelled_ok[j] <= 1

\* C3: once cancel_job has returned Ok for a job, no status check of the
\* job's loop lets another engine invocation start.
C3_NoEngineStartsAfterCancel ==
    [][\A j \in DOMAIN tasks :
          cancelled_ok[j] > 0 =>
              ~(tasks[j].pc = "check" /\ tasks'[j].pc = "progress")]_vars

\* C4: the result map of every job holds only engines of the job's engine
\* list, and every progress snapshot has completed_engines <= total_engines.
C4_ResultsWithinEngineList ==
    \A j \in DOMAIN active_jobs :
        /\ DOMAIN active_jobs[j].results \subseteq Range(active_jobs[j].engines)
        /\ Progress(j).completed_engines <= Progress(j).total_engines

\* a job with both of its two engines recorded
C4_Witness ==
    \E j \in DOMAIN active_jobs :
        /\ Progress(j).total_engines = 2
        /\ Progress(j).completed_engines = 2

\* C5: every progress snapshot taken while the status is Completed has
\* completed_engines = total_engines.
C5_CompletedMeansAllCounted ==
    \A j \in DOMAIN active_jobs :
        Progress(j).status = "Completed" =>
            Progress(j).completed_engines = Progress(j).total_engines

\* C6: in every progress snapshot succeeded_engines + failed_engines equals
\* completed_engines.
C6_SucceededPlusFailed ==
    \A j \in DOMAIN active_jobs :
        Progress(j).succeeded_engines + Progress(j).failed_engines
            = Progress(j).completed_engines

\* a snapshot with one success and one failure recorded
C6_Witness ==
    \E j \in DOMAIN active_jobs :
        /\ Progress(j).succeeded_engines = 1
        /\ Progress(j).failed_engines = 1

Unresolvable(names) == \A i \in DOMAIN names : from_str(names[i]) = None

\* C7: a submit whose engine names all fail to resolve (or whose list is
\* empty) returns an error and adds no job, starts no task and emits no
\* notification.
C7_RejectedSubmitChangesNothing ==
    [][(ret'.op = "submit" /\ Unresolvable(ret'.engines)) =>
          /\ ~ret'.ok
          /\ UNCHANGED <<active_jobs, tasks, events, cancelled_ok>>]_vars

\* a submit of a non-empty list of unknown names has returned its error
C7_Witness ==
    /\ ret.op = "submit"
    /\ ret.engines # <<>>
    /\ Unresolvable(ret.engines)
    /\ ~ret.ok

C9_RefusedCancelChangesNothing ==
    [][/\ (/\ ret'.op = "cancel_job"
           /\ \/ ret'.job_id \notin DOMAIN active_jobs
              \/ active_jobs[ret'.job_id].status \notin {"Pending", "Running"})
          => /\ ~ret'.ok
             /\ UNCHANGED <<active_jobs, tasks, events, cancelled_ok>>
       /\ (ret'.op = "get_progress" /\ ret'.job_id \notin DOMAIN active_jobs)
          => ret'.progress = {}]_vars

\* cancel_job has just been refused on a Completed job
C9_Witness ==
    /\ ret.op = "cancel_job"
    /\ ~ret.ok
    /\ ret.job_id \in DOMAIN active_jobs
    /\ active_jobs[ret.job_id].status = "Completed"

\* C10: an engine failure never aborts the job: every engine the loop has
\* gone past has its outcome in the result map, and a job that is never
\* cancelled eventually is Completed with every engine of its list recorded.
C10_FailureNeverAbortsJob ==
    /\ [](\A j \in DOMAIN tasks :
            \A i \in 1..tasks[j].completed :
                tasks[j].engines[i] \in DOMAIN active_jobs[j].results)
    /\ \A j \in JobIds :
          (j \in DOMAIN active_jobs) ~>
              \/ cancelled_ok[j] > 0
              \/ /\ j \in DOMAIN active_jobs
                 /\ active_jobs[j].status = "Completed"
                 /\ Range(active_jobs[j].engines)
                        \subseteq DOMAIN active_jobs[j].results

\* a job that was never cancelled is Completed although its first engine
\* failed, with the second engine's success recorded after it
C10_Witness ==
    \E j \in DOMAIN active_jobs :
        /\ cancelled_ok[j] = 0
        /\ active_jobs[j].status = "Completed"
        /\ active_jobs[j].engines = <<"Contradiction", "TemporalParser">>
        /\ DOMAIN active_jobs[j].results = {"Contradiction", "TemporalParser"}
        /\ ~active_jobs[j].results["Contradiction"].ok
        /\ active_jobs[j].results["TemporalParser"].ok

\* ------------------------------------------------- notifications of a job
\* The notifications of job j whose name is in `types`, in emission order
Notified(j, types) == SelectSeq(events[j], LAMBDA e : e.type \in types)

Outcomes == {"engine:finding", "engine:error"}

\* The loop of job j is between the start of an invocation and the recording
\* of its outcome
InFlight(j) == j \in DOMAIN tasks /\ tasks[j].pc \in {"run", "record"}

\* The loop of job j has been left, at the end of the list or by the return
\* on Cancelled
LoopExited(j) ==
    j \in DOMAIN tasks /\ tasks[j].pc \in {"complete", "emit_complete", "done"}

\* C11: within one job the engines run one after another in list order: at
\* most one invocation is in flight, the invocation at position k starts
\* only when the outcomes of the positions before it are in the result map,
\* and the invocations start in the order of the job's engine list.
C11_EnginesRunOneAfterAnother ==
    \A j \in DOMAIN tasks :
        LET t == tasks[j]
            started == Notified(j, {"engine:progress"})
            ended == Notified(j, Outcomes)
        IN  /\ InFlight(j) =>
                  DOMAIN active_jobs[j].results =
                      {t.engines[i] : i \in 1..t.completed}
            /\ app_handle =>
                  /\ Len(started) - Len(ended) = IF InFlight(j) THEN 1 ELSE 0
                  /\ \A k \in DOMAIN started :
                        started[k].engine_id =
                            to_string(active_jobs[j].engines[k])

\* the second of two different engines is in flight, the first one's
\* outcome recorded and notified
C11_Witness ==
    /\ app_handle
    /\ 1 \in DOMAIN tasks
    /\ tasks[1].pc = "run"
    /\ tasks[1].completed = 1
    /\ tasks[1].engines[1] # tasks[1].engines[2]
    /\ DOMAIN active_jobs[1].results = {tasks[1].engines[1]}
    /\ Len(Notified(1, {"engine:progress"})) = 2

\* C12: once the loop of a job has exited, every engine for which it
\* started an invocation has an entry in the job's result map, a success or
\* a failure that matches the outcome notified for its last invocation.
C12_StartedEnginesAreRecorded ==
    \A j \in DOMAIN tasks :
        LoopExited(j) =>
            LET results == active_jobs[j].results
                started == Notified(j, {"engine:progress"})
                ended == Notified(j, Outcomes)
            IN  /\ \A i \in 1..tasks[j].completed :
                      tasks[j].engines[i] \in DOMAIN results
                /\ app_handle =>
                      /\ Len(started) = tasks[j].completed
                      /\ \A k \in DOMAIN started :
                            \E e \in DOMAIN results :
                                /\ to_string(e) = started[k].engine_id
                                /\ (\A m \in (k + 1)..Len(started) :
                                        started[m].engine_id # to_string(e))
                                   => results[e].ok =
                                          (ended[k].type = "engine:finding")

\* the loop has returned on Cancelled after one invocation, which failed
\* and is recorded as a failure
C12_Witness ==
    /\ app_handle
    /\ 1 \in DOMAIN tasks
    /\ tasks[1].pc = "done"
    /\ tasks[1].completed = 1
    /\ Len(tasks[1].engines) = 2
    /\ active_jobs[1].status = "Cancelled"
    /\ \E e \in DOMAIN active_jobs[1].results : ~active_jobs[1].results[e].ok

\* C13: a cancel that succeeds while an invocation is in flight does not
\* interrupt it: the only step the loop takes from there is the return of
\* the invocation, and its outcome is then recorded in the result map
\* although the status has become Cancelled.
C13_CancelLeavesInvocationRunning ==
    /\ [][\A j \in DOMAIN tasks :
            tasks[j].pc = "run" => tasks'[j].pc \in {"run", "record"}]_vars
    /\ \A j \in JobIds : \A k \in 0..(MaxEngines - 1) :
          (/\ j \in DOMAIN tasks
           /\ tasks[j].pc = "run"
           /\ tasks[j].completed = k
           /\ active_jobs[j].status = "Cancelled")
          ~> (/\ j \in DOMAIN tasks
              /\ tasks[j].completed = k + 1
              /\ tasks[j].engines[k + 1] \in DOMAIN active_jobs[j].results)

\* cancelled was notified right after the progress of the first engine, and
\* the outcome of that engine is notified after it and is in the result map
C13_Witness ==
    /\ Len(events[1]) >= 4
    /\ events[1][2].type = "engine:progress"
    /\ events[1][3].type = "engine:cancelled"
    /\ events[1][4].type \in Outcomes
    /\ events[1][4].engine_id = events[1][2].engine_id
    /\ tasks[1].engines[1] \in DOMAIN active_jobs[1].results

\* C14: the mock_mode notification is emitted at most once per job, and only
\* together with the first engine result of the job that used the fallback:
\* the finding notification of that result follows it immediately.
C14_MockModeAtMostOnce ==
    \A j \in JobIds :
        LET log == events[j]
            at == {i \in DOMAIN log : log[i].type = "engine:mock_mode"}
        IN  /\ Cardinality(at) <= 1
            /\ \A i \in at :
                  /\ i < Len(log)
                  /\ log[i + 1].type = "engine:finding"
                  /\ log[i + 1].mock_mode
                  /\ \A k \in 1..(i - 1) :
                        ~(log[k].type = "engine:finding" /\ log[k].mock_mode)

\* two engines of one job have used the fallback and one mock_mode
\* notification was emitted
C14_Witness ==
    /\ Len(Notified(1, {"engine:mock_mode"})) = 1
    /\ Len(SelectSeq(events[1], LAMBDA e :
              e.type = "engine:finding" /\ e.mock_mode)) = 2

\* The orchestrator has a sink and its runner has no worker path
NoWorkerPathWithSink == app_handle /\ runner.sidecar_path = None

C16_NotificationsInOrder ==
    \A j \in JobIds :
        LET log == events[j] IN
        /\ log # <<>> => log[1].type = "engine:job_started"
        /\ \A i \in DOMAIN log :
              /\ log[i].type \in Outcomes =>
                    LET before == SubSeq(log, 1, i - 1)
                        started == SelectSeq(before,
                                       LAMBDA e : e.type = "engine:progress")
                        ended == SelectSeq(before,
                                       LAMBDA e : e.type \in Outcomes)
                    IN  /\ Len(started) = Len(ended) + 1
                        /\ started[Len(started)].engine_id = log[i].engine_id
                        /\ \E e \in DOMAIN active_jobs[j].results :
                              to_string(e) = log[i].engine_id
              /\ log[i].type = "engine:complete" => i = Len(log)

\* ========================================================= process level
\* One call of run_via_sidecar seen one pipe operation at a time, against a
\* worker process that reads and writes its ends of the three pipes as it
\* likes. Data is counted in chunks; a pipe holds PipeCap of them.
lock_vars == <<active_jobs_lock, job_locks, job_status, loops, callers>>

\* The texts a worker answers with: responses of either outcome with and
\* without their optional fields, and a text that is no response
ResponseTexts ==
    {"{success:true,findings:[f]}", "{success:true}",
     "{success:true,error:boom}", "{success:false,error:boom}",
     "{success:false,error:}", "{success:false,findings:[f],error:boom}",
     "{success:false,findings:[f]}", "{success:false}", "not json"}

\* The first lines a worker writes to stdout: a text and its newline, white
\* space only, and bytes that are no UTF-8 text
WorkerLines ==
    {<<text, "\n">> : text \in ResponseTexts}
        \cup {<<"\n">>, <<" ", "\t", "\n">>, <<"<invalid utf-8>">>}

\* Command::new("node")...spawn() fails (runner.rs 184-190)
spawn_fails ==
    /\ sidecar.pc = "idle"
    /\ sidecar' = [sidecar EXCEPT
                      !.pc = "returned",
                      !.result = Err("Failed to spawn sidecar")]
    /\ UNCHANGED <<orch_vars, lock_vars>>

\* Command::new("node")...spawn() starts a worker (runner.rs 184-190) that
\* will write err_total chunks to stderr and a line of out_total chunks to
\* stdout, that exits after them or stays, and that closes its stdin and
\* stderr only by exiting or also before
spawn(terminates, closes_early, line, out_total, err_total) ==
    /\ sidecar.pc = "idle"
    /\ sidecar' = [sidecar EXCEPT
                      !.pc = "write",
                      !.req_left = ReqChunks,
                      !.worker = "running",
                      !.terminates = terminates,
                      !.closes_early = closes_early,
                      !.line = IF out_total = 0 THEN <<>> ELSE line,
                      !.out_total = out_total,
                      !.out_left = out_total,
                      !.err_left = err_total,
                      !.w_stdin_open = TRUE,
                      !.w_stderr_open = TRUE]
    /\ UNCHANGED <<orch_vars, lock_vars>>

\* stdin.write_all of the request and of the newline, then the drop of stdin
\* at the end of the block (runner.rs 196-202)
write_request ==
    /\ sidecar.pc = "write"
    /\ IF ~sidecar.w_stdin_open
       THEN sidecar' = [sidecar EXCEPT
                           !.pc = "returned",
                           !.result = Err("Failed to write to sidecar stdin")]
       ELSE /\ sidecar.stdin_buf < PipeCap
            /\ sidecar' = [sidecar EXCEPT
                              !.stdin_buf = @ + 1,
                              !.req_left = @ - 1,
                              !.pc = IF sidecar.req_left = 1
                                     THEN "drain" ELSE "write"]
    /\ UNCHANGED <<orch_vars, lock_vars>>

\* `while stderr_reader.read_line(&mut line).await.unwrap_or(0) > 0`: one
\* line is read, or the end of the stream ends the loop (runner.rs 204-213)
drain_stderr ==
    /\ sidecar.pc = "drain"
    /\ IF sidecar.stderr_buf > 0
       THEN sidecar' = [sidecar EXCEPT !.stderr_buf = @ - 1]
       ELSE /\ ~sidecar.w_stderr_open
            /\ sidecar' = [sidecar EXCEPT !.pc = "read"]
    /\ UNCHANGED <<orch_vars, lock_vars>>

\* reader.read_line(&mut response_line): the chunks of the first line are
\* taken from the pipe up to its newline or to the end of the stream; bytes
\* that are no UTF-8 text are a read error (runner.rs 216-223)
read_line ==
    /\ sidecar.pc = "read"
    /\ IF sidecar.stdout_buf > 0
       THEN LET complete == sidecar.line_read + 1 = sidecar.out_total IN
            sidecar' =
               IF complete /\ sidecar.line = <<"<invalid utf-8>">>
               THEN [sidecar EXCEPT
                        !.stdout_buf = @ - 1,
                        !.line_read = @ + 1,
                        !.pc = "returned",
                        !.result = Err("Failed to read response")]
               ELSE [sidecar EXCEPT
                        !.stdout_buf = @ - 1,
                        !.line_read = @ + 1,
                        !.pc = IF complete THEN "wait" ELSE "read"]
       ELSE /\ sidecar.worker # "running"
            /\ sidecar' = [sidecar EXCEPT !.pc = "wait"]
    /\ UNCHANGED <<orch_vars, lock_vars>>

\* child.wait().await returns, and the rest of the inner block decides the
\* result from the line that was read (runner.rs 226-248, 252)
wait_exit ==
    /\ sidecar.pc = "wait"
    /\ sidecar.worker = "exited"
    /\ sidecar' = [sidecar EXCEPT
                      !.reaped = TRUE,
                      !.pc = "returned",
                      !.result =
                          response_result(
                              sidecar.exit_ok,
                              IF sidecar.line_read = sidecar.out_total
                              THEN sidecar.line ELSE <<>>)]
    /\ UNCHANGED <<orch_vars, lock_vars>>

\* timeout(Duration::from_secs(180), ...) elapses before the inner block has
\* finished (runner.rs 193, 253)
timeout_fires ==
    /\ sidecar.pc \in {"write", "drain", "read", "wait"}
    /\ sidecar' = [sidecar EXCEPT !.pc = "kill"]
    /\ UNCHANGED <<orch_vars, lock_vars>>

\* child.kill().await (runner.rs 255-257)
kill ==
    /\ sidecar.pc = "kill"
    /\ sidecar' = [sidecar EXCEPT
                      !.pc = "reap",
                      !.worker = IF @ = "running" THEN "killed" ELSE @,
                      !.w_stdin_open = FALSE,
                      !.w_stderr_open = FALSE]
    /\ UNCHANGED <<orch_vars, lock_vars>>

\* child.wait().await after the kill, and the timeout error (runner.rs 258-259)
reap ==
    /\ sidecar.pc = "reap"
    /\ sidecar' = [sidecar EXCEPT
                      !.reaped = TRUE,
                      !.pc = "returned",
                      !.result = Err("Sidecar timed out after 180s")]
    /\ UNCHANGED <<orch_vars, lock_vars>>

\* One step of run_via_sidecar after the spawn
run_via_sidecar_step ==
    \/ write_request
    \/ drain_stderr
    \/ read_line
    \/ wait_exit
    \/ timeout_fires
    \/ kill
    \/ reap

\* The worker takes a chunk of the request from its stdin
worker_reads_stdin ==
    /\ sidecar.worker = "running"
    /\ sidecar.w_stdin_open
    /\ sidecar.stdin_buf > 0
    /\ sidecar' = [sidecar EXCEPT !.stdin_buf = @ - 1]
    /\ UNCHANGED <<orch_vars, lock_vars>>

\* The worker closes its stdin and goes on running
worker_closes_stdin ==
    /\ sidecar.worker = "running"
    /\ sidecar.closes_early
    /\ sidecar.w_stdin_open
    /\ sidecar' = [sidecar EXCEPT !.w_stdin_open = FALSE, !.stdin_buf = 0]
    /\ UNCHANGED <<orch_vars, lock_vars>>

\* The worker writes a chunk to stderr; the write waits while the pipe is full
worker_writes_stderr ==
    /\ sidecar.worker = "running"
    /\ sidecar.w_stderr_open
    /\ sidecar.err_left > 0
    /\ sidecar.stderr_buf < PipeCap
    /\ sidecar' = [sidecar EXCEPT !.stderr_buf = @ + 1, !.err_left = @ - 1]
    /\ UNCHANGED <<orch_vars, lock_vars>>

\* The worker closes its stderr after what it had to log and goes on running
worker_closes_stderr ==
    /\ sidecar.worker = "running"
    /\ sidecar.closes_early
    /\ sidecar.w_stderr_open
    /\ sidecar.err_left = 0
    /\ sidecar' = [sidecar EXCEPT !.w_stderr_open = FALSE]
    /\ UNCHANGED <<orch_vars, lock_vars>>

\* The worker writes a chunk of its line to stdout; the write waits while
\* the pipe is full
worker_writes_stdout ==
    /\ sidecar.worker = "running"
    /\ sidecar.out_left > 0
    /\ sidecar.stdout_buf < PipeCap
    /\ sidecar' = [sidecar EXCEPT !.stdout_buf = @ + 1, !.out_left = @ - 1]
    /\ UNCHANGED <<orch_vars, lock_vars>>

\* The worker exits once it has written everything, with status zero or
\* another: its ends of the pipes are closed
worker_exits(exit_ok) ==
    /\ sidecar.worker = "running"
    /\ sidecar.terminates
    /\ sidecar.out_left = 0
    /\ sidecar.err_left = 0
    /\ sidecar' = [sidecar EXCEPT
                      !.worker = "exited",
                      !.exit_ok = exit_ok,
                      !.w_stdin_open = FALSE,
                      !.w_stderr_open = FALSE]
    /\ UNCHANGED <<orch_vars, lock_vars>>

SidecarNext ==
    \/ spawn_fails
    \/ \E terminates \in BOOLEAN : \E closes_early \in BOOLEAN :
          \E line \in WorkerLines :
              \E out_total \in 0..MaxChunks : \E err_total \in 0..MaxChunks :
                  spawn(terminates, closes_early, line, out_total, err_total)
    \/ run_via_sidecar_step
    \/ worker_reads_stdin
    \/ worker_closes_stdin
    \/ worker_writes_stderr
    \/ worker_closes_stderr
    \/ worker_writes_stdout
    \/ \E exit_ok \in BOOLEAN : worker_exits(exit_ok)

SidecarSpec == Init /\ [][SidecarNext]_vars

\* The call of run_via_sidecar is polled until it returns, and its timer
\* elapses if the inner block has not finished; nothing is assumed of the
\* worker.
SidecarFairSpec == SidecarSpec /\ WF_vars(run_via_sidecar_step)

\* ----------------------------------------------------- who waits for whom
\* The threads that stand between thread t and the lock it is waiting for:
\* the holders that exclude it and, at the registry, the requests queued
\* before its own
BlockedBy(t) ==
    LET l == active_jobs_lock
        at_registry ==
            IF queued(l, t)
            THEN LET i == CHOOSE i \in DOMAIN l.queue : l.queue[i].thread = t
                 IN  {l.queue[k].thread : k \in 1..(i - 1)}
                     \cup l.writer
                     \cup (IF l.queue[i].write THEN l.readers ELSE {})
            ELSE {}
        at_job ==
            IF t[1] = "loop"
            THEN IF loops[t[2]].pc \in LockedBlocks
                 THEN job_locks[t[2]] \ {t} ELSE {}
            ELSE IF callers[t[2]].pc = "job"
                 THEN job_locks[callers[t[2]].job] ELSE {}
    IN  at_registry \cup at_job

\* The threads t waits for, directly or through the locks of other threads
RECURSIVE WaitsBehind(_, _)
WaitsBehind(S, n) ==
    IF n = 0 THEN S
    ELSE WaitsBehind(S \cup UNION {BlockedBy(u) : u \in S}, n - 1)

Behind(t) == WaitsBehind(BlockedBy(t), Cardinality(Threads))

\* The locks thread t holds: the registry's, and the jobs'
HoldsNothing(t) ==
    /\ ~holds(active_jobs_lock, t)
    /\ ~queued(active_jobs_lock, t)
    /\ \A j \in LockJobIds : t \notin job_locks[j]

\* C17: while an engine invocation of a job is in flight, the job's loop
\* holds neither the job's lock nor the registry lock and asks for none, so
\* no progress query, listing or cancel on any job waits for it, directly or
\* through the lock of another thread.
C17_NoLockHeldDuringInvocation ==
    \A j \in LockJobIds :
        loops[j].pc = "run" =>
            /\ HoldsNothing(Loop(j))
            /\ \A t \in Threads : Loop(j) \notin Behind(t)

\* a cancel_job on job 1 holds the registry lock and the job's lock while
\* the invocation of job 1 is in flight
C17_Witness ==
    /\ loops[1].pc = "run"
    /\ callers[1].op = "cancel_job"
    /\ callers[1].job = 1
    /\ callers[1].pc = "locked"

\* The threads that hold a lock because they are changing job b: the job's
\* loop while it records a result, and a cancel_job on b
Mutating(b) ==
    {t \in {Loop(b)} : loops[b].pc = "record" /\ t \in job_locks[b]}
    \cup {Caller(c) : c \in {x \in CallerIds :
              /\ callers[x].op = "cancel_job"
              /\ callers[x].job = b
              /\ \/ holds(active_jobs_lock, Caller(x))
                 \/ Caller(x) \in job_locks[b]}}

\* C18: a get_progress call for a job a of the registry never waits,
\* directly or through another caller's lock, for a thread that holds a lock
\* because it is changing a different job b of the registry.
C18_ProgressNeverWaitsOnOtherJob ==
    \A c \in CallerIds : \A a \in Registered : \A b \in Registered \ {a} :
        (callers[c].op = "get_progress" /\ callers[c].job = a) =>
            Behind(Caller(c)) \cap Mutating(b) = {}

\* C19: a worker process that never terminates is force-killed when the
\* timeout fires and its exit is awaited, and the invocation returns the
\* timeout failure, whatever part of the protocol had completed: the call
\* returns, and when it has returned from a worker that never exits, that
\* worker is killed and reaped and the result is the timeout error.
C19_HungWorkerIsKilledAndReaped ==
    /\ [](/\ sidecar.pc = "returned"
          /\ sidecar.worker # "none"
          /\ ~sidecar.terminates
          => /\ sidecar.worker = "killed"
             /\ sidecar.reaped
             /\ sidecar.result = Err("Sidecar timed out after 180s"))
    /\ (sidecar.pc # "idle") ~> (sidecar.pc = "returned")

\* The worker has only a write to stdout left and the pipe is full
BlockedOnStdout ==
    /\ sidecar.worker = "running"
    /\ ~sidecar.closes_early
    /\ sidecar.out_left > 0
    /\ sidecar.stdout_buf = PipeCap
    /\ sidecar.err_left = 0

\* The worker has only a write to stderr left and the pipe is full
BlockedOnStderr ==
    /\ sidecar.worker = "running"
    /\ ~sidecar.closes_early
    /\ sidecar.err_left > 0
    /\ sidecar.stderr_buf = PipeCap
    /\ sidecar.out_left = 0

\* C20: a worker that writes a valid response line and then exits is never
\* left blocked on a full stdout or stderr pipe while the runner waits on
\* the other stream, whatever it writes to either stream.
C20_WorkerNeverBlockedOnFullPipe ==
    (sidecar.terminates /\ sidecar.line = <<"{success:true,findings:[f]}", "\n">>) =>
        /\ ~(/\ BlockedOnStdout
             /\ sidecar.pc = "drain"
             /\ sidecar.stderr_buf = 0)
        /\ ~(/\ BlockedOnStderr
             /\ sidecar.pc = "read"
             /\ sidecar.stdout_buf = 0)

\* ------------------------------------------------- decoding the response
\* The line read_line has handed to the inner block
FirstLineRead ==
    IF sidecar.line_read = sidecar.out_total THEN sidecar.line ELSE <<>>

\* The step in which child.wait() returns and the inner block yields its value
InnerBlockReturns == sidecar.pc = "wait" /\ sidecar'.pc = "returned"

Blank(line) == \A i \in DOMAIN line : line[i] \in Whitespace

C23_ExitStatusDecidesNothing ==
    [][InnerBlockReturns =>
          LET parsed == parse_response(FirstLineRead) IN
          (parsed # Absent /\ parsed[1].success) =>
              sidecar'.result =
                  Ok(IF parsed[1].findings = Absent THEN <<>>
                     ELSE parsed[1].findings[1])]_vars

C23_Witness ==
    /\ sidecar.pc = "returned"
    /\ sidecar.worker = "exited"
    /\ ~sidecar.exit_ok
    /\ FirstLineRead = <<"{success:true,findings:[f]}", "\n">>
    /\ sidecar.result = Ok(<<WorkerFinding>>)

\* ========================================================== runner level
\* An EngineRunner of its own, built and then called.
served_vars == <<active_jobs, tasks, runner, app_handle, shared, events, ret,
                 cancelled_ok, lock_vars, sidecar, own_job>>

\* EngineRunner::with_sidecar_path on the runner being built
EngineRunner_with_sidecar_path(path) ==
    /\ invocation.engine_id = None
    /\ invocation' =
          [invocation EXCEPT !.r = runner_with_sidecar_path(@, path)]
    /\ UNCHANGED <<served_vars, catalog>>

\* EngineRunner::with_mock_mode on the runner being built
EngineRunner_with_mock_mode(mock) ==
    /\ invocation.engine_id = None
    /\ invocation' = [invocation EXCEPT !.r = runner_with_mock_mode(@, mock)]
    /\ UNCHANGED <<served_vars, catalog>>

\* EngineRunner::run_engine on that runner, meeting some worker and some
\* value of Uuid::new_v4
EngineRunner_run_engine(engine_id, case_id, document_ids) ==
    \E w \in Workers :
        /\ invocation' =
              [invocation EXCEPT
                  !.engine_id = engine_id,
                  !.case_id = case_id,
                  !.document_ids = document_ids,
                  !.w = w,
                  !.result = run_engine(invocation.r, w, engine_id, case_id,
                                        document_ids)]
        /\ UNCHANGED <<served_vars, catalog>>

RunnerNext ==
    \/ \E path \in SidecarPaths : EngineRunner_with_sidecar_path(path)
    \/ \E mock \in BOOLEAN : EngineRunner_with_mock_mode(mock)
    \/ \E engine_id \in EngineId : \E document_ids \in DocumentIdLists :
          EngineRunner_run_engine(engine_id, "c1", document_ids)

RunnerSpec == Init /\ [][RunnerNext]_vars

\* ========================================================= catalog level
\* The two functions of the catalog, called on names and on identifiers.
\* Names from_str is called with: the canonical names, the alias, and
\* strings that are neither, canonical names in another letter case among
\* them
Names ==
    {to_string(e) : e \in EngineId}
        \cup {"temporal", "Contradiction", "CONTRADICTION", "Temporal",
              "TEMPORAL_PARSER", "temporalParser", "BiasCascade",
              "Bias_Cascade", "", " contradiction", "contradiction ",
              "entity-resolution", "bogus_engine"}

\* EngineId::from_str(s)
from_str_call(s) ==
    /\ catalog' = [catalog EXCEPT !.name = s, !.id = from_str(s)]
    /\ UNCHANGED <<served_vars, invocation>>

\* engine_id.to_string()
to_string_call(e) ==
    /\ catalog' = [catalog EXCEPT !.shown_id = e, !.shown_name = to_string(e)]
    /\ UNCHANGED <<served_vars, invocation>>

CatalogNext ==
    \/ \E s \in Names : from_str_call(s)
    \/ \E e \in EngineId : to_string_call(e)

CatalogSpec == Init /\ [][CatalogNext]_vars

\* ============================================================= job level
\* An EngineJob of its own: constructed, started, completed, and given
\* results through its public field as the unit tests of job.rs do.
built_vars == <<active_jobs, tasks, runner, app_handle, shared, events, ret,
                cancelled_ok, lock_vars, sidecar, invocation, catalog>>

\* Engine lists the job is constructed with
JobEngineLists == {<<"Contradiction">>, <<"Contradiction", "Omission">>}

\* Results stored for an engine: findings or none, and an error
JobResults == {Ok(<<>>), Ok(<<WorkerFinding>>), Err("Test error")}

\* EngineJob::new(id, case_id, document_ids, engines)
EngineJob_new_call(engines) ==
    /\ own_job' = [op |-> "new", now |-> "",
                   job |-> EngineJob_new(1, "c1", <<"d1">>, engines)]
    /\ UNCHANGED built_vars

\* job.start()
EngineJob_start_call(now) ==
    /\ own_job.op # "none"
    /\ own_job' = [op |-> "start", now |-> now,
                   job |-> EngineJob_start(own_job.job, now)]
    /\ UNCHANGED built_vars

\* job.complete()
EngineJob_complete_call(now) ==
    /\ own_job.op # "none"
    /\ own_job' = [op |-> "complete", now |-> now,
                   job |-> EngineJob_complete(own_job.job, now)]
    /\ UNCHANGED built_vars

\* job.results.insert(engine_id, result)
results_insert_call(engine_id, result) ==
    /\ own_job.op # "none"
    /\ own_job' = [op |-> "insert", now |-> "",
                   job |-> [own_job.job EXCEPT
                              !.results = insert(@, engine_id, result)]]
    /\ UNCHANGED built_vars

JobNext ==
    \/ \E engines \in JobEngineLists : EngineJob_new_call(engines)
    \/ \E now \in Times : EngineJob_start_call(now)
    \/ \E now \in Times : EngineJob_complete_call(now)
    \/ \E engine_id \in {"Contradiction", "Omission"} :
          \E result \in JobResults : results_insert_call(engine_id, result)

JobSpec == Init /\ [][JobNext]_vars

\* C31: a new job is Pending with no start time, no completion time and no
\* results; start() makes it Running and stores the time of the call as the
\* start time, complete() makes it Completed and stores the time of the call
\* as the completion time, and both leave the results and the engine list as
\* they were.
C31_NewStartComplete ==
    [][LET old == own_job.job
           new == own_job'.job
       IN  /\ own_job'.op = "new" =>
                 /\ new.status = "Pending"
                 /\ new.started_at = Absent
                 /\ new.completed_at = Absent
                 /\ DOMAIN new.results = {}
           /\ own_job'.op = "start" =>
                 /\ new.status = "Running"
                 /\ new.started_at = Some(own_job'.now)
                 /\ new.results = old.results
                 /\ new.engines = old.engines
           /\ own_job'.op = "complete" =>
                 /\ new.status = "Completed"
                 /\ new.completed_at = Some(own_job'.now)
                 /\ new.results = old.results
                 /\ new.engines = old.engines]_vars

\* A job with two engines and a result was started at one time and is
\* completed at another.
C31_Witness ==
    /\ own_job.op = "complete"
    /\ Len(own_job.job.engines) = 2
    /\ DOMAIN own_job.job.results # {}
    /\ own_job.job.started_at = Some("t1")
    /\ own_job.job.completed_at = Some("t2")

\* run_engine has been called on the runner of `invocation`
Invoked == invocation.engine_id # None

\* C24: a call of run_engine takes the fallback path exactly when
\* is_mock_mode() is true of the runner: then it succeeds with the mock
\* engine's findings and used_mock_mode true whatever the worker would have
\* done (no process is involved, and a `node` that cannot be spawned changes
\* nothing); otherwise its outcome is the worker's, with used_mock_mode false.
C24_FallbackExactlyInMockMode ==
    Invoked =>
        IF is_mock_mode(invocation.r)
        THEN /\ invocation.result.ok
             /\ invocation.result.used_mock_mode
             /\ invocation.result.findings =
                   run_mock_engine(invocation.w.uuid, invocation.engine_id,
                                   invocation.case_id,
                                   invocation.document_ids).findings
        ELSE /\ ~invocation.result.used_mock_mode
             /\ invocation.result.ok = run_via_sidecar(invocation.w).ok
             /\ invocation.result.findings =
                   run_via_sidecar(invocation.w).findings
             /\ invocation.result.error = run_via_sidecar(invocation.w).error

\* The fallback is taken for a path that does not exist, against a worker
\* that could not even be spawned
C24_Witness ==
    /\ Invoked
    /\ ~invocation.r.mock_mode
    /\ invocation.r.sidecar_path = "/missing/engine-runner.js"
    /\ ~invocation.w.spawn_ok
    /\ invocation.result.ok
    /\ invocation.result.used_mock_mode

\* C25: for every engine identifier, a call that takes the fallback path
\* succeeds with at least one finding, and each finding carries the engine's
\* canonical name, the document ids of the call and the "mock" flag in its
\* metadata.
C25_EveryEngineHasPlaceholders ==
    (Invoked /\ is_mock_mode(invocation.r)) =>
        /\ invocation.result.ok
        /\ Len(invocation.result.findings) > 0
        /\ \A i \in DOMAIN invocation.result.findings :
              LET f == invocation.result.findings[i] IN
              /\ f.engine_id = to_string(invocation.engine_id)
              /\ f.document_ids = invocation.document_ids
              /\ f.mock

\* An engine without a bespoke mock, called with document ids
C25_Witness ==
    /\ Invoked
    /\ is_mock_mode(invocation.r)
    /\ invocation.engine_id = "BiasCascade"
    /\ invocation.document_ids = <<"d1", "d2">>
    /\ invocation.result.ok
    /\ invocation.result.findings[1].finding_type = "general"
    /\ invocation.result.findings[1].engine_id = "bias_cascade"

\* C26: two calls in a row that take the fallback path with the same engine
\* identifier, case id and document ids return the same findings, equal in
\* every field.
C26_FallbackIsDeterministic ==
    [][(/\ Invoked
        /\ is_mock_mode(invocation.r)
        /\ invocation'.r = invocation.r
        /\ invocation'.engine_id = invocation.engine_id
        /\ invocation'.case_id = invocation.case_id
        /\ invocation'.document_ids = invocation.document_ids)
       => invocation'.result.findings = invocation.result.findings]_vars

\* C30: parsing the canonical name of an engine identifier gives that
\* identifier; "temporal" gives TemporalParser; every other string, a
\* canonical name in another letter case included, gives no match.
C30_NameRoundTrip ==
    /\ catalog.shown_id # None =>
          from_str(catalog.shown_name) = catalog.shown_id
    /\ catalog.name = catalog.shown_name => catalog.id = catalog.shown_id
    /\ catalog.name = "temporal" => catalog.id = "TemporalParser"
    /\ catalog.id # None =>
          \/ catalog.name = "temporal"
          \/ catalog.name = to_string(catalog.id)

\* The name to_string gave for an identifier was parsed back
C30_Witness ==
    /\ catalog.shown_id = "BiasCascade"
    /\ catalog.name = "bias_cascade"
    /\ catalog.id = "BiasCascade"

C29_SingleEngineOutsideJobs ==
    /\ [](ret.op = "run_single_engine" =>
             /\ Len(ret.engines) = 1
             /\ \E w \in WorkerBehaviours :
                   LET result == run_engine(runner, w, ret.engines[1], "c1",
                                            <<"d1", "d2">>)
                   IN /\ ret.ok = result.ok
                      /\ ret.findings = result.findings
                      /\ ret.error = result.error
             /\ ret.emitted =
                   IF app_handle /\ is_mock_mode(runner)
                   THEN <<Event("engine:mock_mode")>> ELSE <<>>)
    /\ [][ret'.op = "run_single_engine" =>
             UNCHANGED <<active_jobs, tasks, events, cancelled_ok>>]_vars

\* The call was made while a job was running, on the fallback path
C29_Witness ==
    /\ ret.op = "run_single_engine"
    /\ ret.ok
    /\ ret.emitted = <<Event("engine:mock_mode")>>
    /\ 1 \in DOMAIN active_jobs
    /\ active_jobs[1].status = "Running"

\* ---------------------------------------------------- without the sink
\* What each step that notifies does to the orchestrator besides notifying:
\* the code of the step with every `if let Some(handle)` block left out.
\* The variables of the orchestrator that are no notification:
JobState ==
    <<active_jobs, tasks, runner, shared, cancelled_ok,
      [ret EXCEPT !.emitted = <<>>]>>

submit_spawn_silent(j) ==
    /\ j \in DOMAIN tasks
    /\ tasks[j].pc = "submitted"
    /\ tasks' = [tasks EXCEPT ![j].pc = "lookup", ![j].names = <<>>]
    /\ ret' = Call("submit", j, tasks[j].names, TRUE, "", {})
    /\ UNCHANGED <<active_jobs, runner, shared, cancelled_ok>>

emit_progress_silent(j) ==
    /\ j \in DOMAIN tasks
    /\ tasks[j].pc = "progress"
    /\ tasks' = [tasks EXCEPT ![j].pc = "run"]
    /\ ret' = NoCall
    /\ UNCHANGED <<active_jobs, runner, shared, cancelled_ok>>

record_result_silent(j) ==
    /\ j \in DOMAIN tasks
    /\ tasks[j].pc = "record"
    /\ LET t == tasks[j]
           engine_id == t.engines[t.completed + 1]
       IN  /\ active_jobs' = [active_jobs EXCEPT ![j].results =
                  insert(@, engine_id,
                         IF t.result.ok THEN Ok(t.result.findings)
                         ELSE Err(t.result.error))]
           /\ tasks' = [tasks EXCEPT
                  ![j].mock_mode_detected =
                      \/ t.mock_mode_detected
                      \/ (t.result.ok /\ t.result.used_mock_mode),
                  ![j].completed = t.completed + 1,
                  ![j].result = NoResult,
                  ![j].pc = IF t.completed + 1 < Len(t.engines)
                            THEN "check" ELSE "complete"]
    /\ ret' = NoCall
    /\ UNCHANGED <<runner, shared, cancelled_ok>>

emit_complete_silent(j) ==
    /\ j \in DOMAIN tasks
    /\ tasks[j].pc = "emit_complete"
    /\ tasks' = [tasks EXCEPT ![j].pc = "done"]
    /\ ret' = NoCall
    /\ UNCHANGED <<active_jobs, runner, shared, cancelled_ok>>

cancel_job_silent(job_id) ==
    /\ shared'
    /\ IF job_id \in DOMAIN active_jobs
       THEN IF active_jobs[job_id].status \in {"Running", "Pending"}
            THEN /\ active_jobs' =
                      [active_jobs EXCEPT ![job_id].status = "Cancelled"]
                 /\ cancelled_ok' = [cancelled_ok EXCEPT ![job_id] = @ + 1]
                 /\ ret' = Call("cancel_job", job_id, <<>>, TRUE, "", {})
            ELSE /\ ret' = Call("cancel_job", job_id, <<>>, FALSE,
                             "Job is not running", {})
                 /\ UNCHANGED <<active_jobs, cancelled_ok>>
       ELSE /\ ret' = Call("cancel_job", job_id, <<>>, FALSE,
                        "Job not found", {})
            /\ UNCHANGED <<active_jobs, cancelled_ok>>
    /\ UNCHANGED <<tasks, runner>>

run_single_engine_silent(engine_id, case_id, document_ids) ==
    /\ shared'
    /\ ret'.op = "run_single_engine"
    /\ \E w \in WorkerBehaviours :
          LET result == run_engine(runner, w, engine_id, case_id,
                                   document_ids)
          IN [ret' EXCEPT !.emitted = <<>>] =
                [Call("run_single_engine", 0, <<engine_id>>, result.ok,
                      result.error, {})
                    EXCEPT !.findings = result.findings]
    /\ UNCHANGED <<active_jobs, tasks, runner, cancelled_ok>>

\* A step of the orchestrator as far as JobState goes, written without a
\* sink: the steps that never notify as they are, the others as above
SilentStep ==
    \/ \E engine_id \in SingleEngines :
          run_single_engine_silent(engine_id, "c1", <<"d1", "d2">>)
    \/ \E max_age \in MaxAges : cleanup_old_jobs(max_age)
    \/ \E job_id \in CallIds : get_progress(job_id)
    \/ list_jobs
    \/ \E job_id \in CallIds : cancel_job_silent(job_id)
    \/ \E j \in JobIds :
          \/ submit_spawn_silent(j)
          \/ lookup_job(j)
          \/ set_running(j)
          \/ read_engines(j)
          \/ check_cancelled(j)
          \/ emit_progress_silent(j)
          \/ engine_returns(j)
          \/ record_result_silent(j)
          \/ set_completed(j)
          \/ emit_complete_silent(j)
    \/ \E request \in AnalysisRequest : submit(request)
    \/ \E path \in SidecarPaths : with_sidecar_path(path)
    \/ \E mock \in BOOLEAN : with_mock_mode(mock)

\* The submit call or the task of job j has steps left
Due(j) == j \in DOMAIN tasks /\ tasks[j].pc # "done"

\* C27: with a sink and without one, every step changes the job statuses,
\* the result maps, the tasks and the value returned to the caller as the
\* code without any notification would (so two orchestrators given the same
\* requests, worker outcomes and scheduling, one with a sink and one
\* without, stay equal in all of these), and without a sink no task stops
\* and every call is answered.
C27_SinkHasNoInfluence ==
    /\ [][SilentStep]_JobState
    /\ [](~app_handle =>
             /\ \A j \in JobIds :
                   Due(j) => ENABLED (submit_spawn(j) \/ process_job(j))
             /\ \A job_id \in CallIds :
                   ENABLED cancel_job(job_id) /\ ENABLED get_progress(job_id)
             /\ ENABLED list_jobs)

\* Without a sink a job ran an engine and was cancelled, and the caller got
\* its Ok
C27_Witness ==
    /\ ~app_handle
    /\ ret.op = "cancel_job"
    /\ ret.ok
    /\ 1 \in DOMAIN active_jobs
    /\ active_jobs[1].status = "Cancelled"
    /\ results_len(active_jobs[1].results) = 1

\* C32: no job ever has status Failed: every registered job is Pending,
\* Running, Completed or Cancelled, also when every engine of the job failed,
\* and so is every snapshot a call returns.
C32_NeverFailed ==
    /\ \A j \in DOMAIN active_jobs :
          active_jobs[j].status \in
              {"Pending", "Running", "Completed", "Cancelled"}
    /\ \A p \in ret.progress :
          p.status \in {"Pending", "Running", "Completed", "Cancelled"}

\* The loop of a job with two engines has ended, both engines failed, and a
\* snapshot of the job is returned.
C32_Witness ==
    /\ ret.op \in {"get_progress", "list_jobs"}
    /\ \E p \in ret.progress :
          /\ p.total_engines = 2
          /\ p.failed_engines = 2
          /\ p.status = "Completed"
          /\ tasks[p.job_id].pc = "done"

\* The loop of job j has an engine in hand or ahead: the task is between
\* the write of Running and the end of the loop, and engines are left.
LoopAt(j) ==
    /\ j \in DOMAIN tasks
    /\ tasks[j].pc \in {"read", "check", "progress", "run", "record"}
    /\ tasks[j].completed < Len(active_jobs[j].engines)

\* C33: whenever a returned snapshot reports a current engine, its status
\* is Running, it counts fewer results than engines, and the name is the
\* canonical name of the engine the job's loop is running or will run next.
C33_CurrentEngineIsTheLoops ==
    \A p \in ret.progress :
        p.current_engine # Absent =>
            /\ p.status = "Running"
            /\ p.completed_engines < p.total_engines
            /\ LoopAt(p.job_id)
            /\ p.current_engine =
                  Some(to_string(active_jobs[p.job_id].engines[
                                     tasks[p.job_id].completed + 1]))

\* C34: the reported duration is start-to-now only while the job is still
\* running: once the task of a job has returned, the job ended Completed or
\* Cancelled, its completion time is set and every snapshot reports the
\* fixed duration from start to completion.
C34_DurationFixedOnceEnded ==
    \A j \in DOMAIN active_jobs :
        (j \in DOMAIN tasks /\ tasks[j].pc = "done") =>
            /\ active_jobs[j].status \in {"Completed", "Cancelled"}
            /\ active_jobs[j].completed_at # Absent
            /\ Progress(j).duration_ms = Some("end - start")

\* C35: Completed is terminal. A Completed job has its start time and its
\* completion time set, and no step of any call or of any job's task
\* changes its status, its two times or its result map.
C35_CompletedIsTerminal ==
    /\ [](\A j \in DOMAIN active_jobs :
            active_jobs[j].status = "Completed" =>
                /\ active_jobs[j].started_at # Absent
                /\ active_jobs[j].completed_at # Absent)
    /\ [][\A j \in DOMAIN active_jobs :
            active_jobs[j].status = "Completed" =>
                /\ j \in DOMAIN active_jobs'
                /\ active_jobs'[j].status = "Completed"
                /\ active_jobs'[j].started_at = active_jobs[j].started_at
                /\ active_jobs'[j].completed_at = active_jobs[j].completed_at
                /\ active_jobs'[j].results = active_jobs[j].results]_vars

\* One job is Completed with a result and a caller has just tried to cancel
\* it, while the other job, submitted later, has an engine running.
C35_Witness ==
    /\ DOMAIN active_jobs = {1, 2}
    /\ active_jobs[1].status = "Completed"
    /\ DOMAIN active_jobs[1].results # {}
    /\ ret.op = "cancel_job" /\ ret.job_id = 1 /\ ~ret.ok
    /\ active_jobs[2].status = "Running"
    /\ tasks[2].pc = "record"

\* Thread t is inside a call or inside the task of a job
Busy(t) ==
    IF t[1] = "loop" THEN loops[t[2]].pc \notin {"unspawned", "done"}
    ELSE callers[t[2]].pc # "idle"

\* Thread t can take its next step now; for a request at the head of the
\* registry's queue that step is the grant of the lock
CanStep(t) ==
    IF queued(active_jobs_lock, t) THEN ENABLED registry_grant
    ELSE IF t[1] = "loop"
    THEN ENABLED (process_job_step(t[2]) \/ process_job_engine_returns(t[2]))
    ELSE ENABLED call_step(t[2])

C37_EveryReturnLeavesWorkerReaped ==
    (sidecar.pc = "returned" /\ sidecar.worker # "none") =>
        /\ sidecar.worker \in {"exited", "killed"}
        /\ sidecar.reaped

\* C38: the options of a submitted request are passed on unchanged in the
\* worker request of every engine invocation of its job, and the worker
\* request has no options exactly when the submitted request had none.
C38_OptionsReachTheWorker ==
    \A j \in DOMAIN tasks :
        tasks[j].request # Absent =>
            LET sent == {kv \in tasks[j].request[1] : kv[1] = "options"}
            IN  IF tasks[j].options = None
                THEN sent = {}
                ELSE sent = {<<"options", <<tasks[j].options>> >>}

\* C39: the configuration steps of the orchestrator are independent of
\* their order: setting the worker path keeps the fallback switch and
\* setting the fallback switch keeps the worker path, so that the runner has
\* both settings whichever was set first, and an orchestrator whose fallback
\* switch was set to true is still in fallback mode after the worker path
\* is set.
C39_ConfigurationOrderIndependent ==
    [][/\ \A path \in SidecarPaths :
            with_sidecar_path(path) =>
                /\ runner'.sidecar_path = path
                /\ runner'.mock_mode = runner.mock_mode
                /\ runner.mock_mode => is_mock_mode(runner')
       /\ \A mock \in BOOLEAN :
            with_mock_mode(mock) =>
                /\ runner'.mock_mode = mock
                /\ runner'.sidecar_path = runner.sidecar_path]_vars
====
